---- MODULE Spec2Model ----
(***************************************************************************)
(* Model of the ia.json client libraries: manifest discovery, the          *)
(* endpoint index, and the tier-driven authentication of call(), in the    *)
(* PHP port (IaJson\Client) and the Node port (@iajson/client).            *)
(*                                                                         *)
(* Strings are TLA+ strings, built with \o as the code builds them.        *)
(* An optional value (PHP ?T, TS T | undefined) is a sequence of length    *)
(* 0 or 1: None is <<>>, Some(x) is <<x>>.                                 *)
(***************************************************************************)
EXTENDS Integers, Sequences, FiniteSets, TLC

\* ------------------------------------------------------------------ bounds
\* The wall clock runs from 0 to MaxClock seconds.
MaxClock == 1

\* ----------------------------------------------------------------- options
None == <<>>
Some(x) == <<x>>
IsNone(o) == o = <<>>
IsSome(o) == o # <<>>
Val(o) == o[1]

\* ----------------------------------------------------------------- strings
StartsWith(s, p) == Len(s) >= Len(p) /\ SubSeq(s, 1, Len(p)) = p

Drop(s, n) == SubSeq(s, n + 1, Len(s))

RECURSIVE Contains(_, _)
Contains(s, p) ==
    IF Len(s) < Len(p) THEN FALSE
    ELSE StartsWith(s, p) \/ Contains(Drop(s, 1), p)

\* PHP rtrim($s, $c) / ltrim($s, $c) for a one-character $c.
RECURSIVE rtrim(_, _)
rtrim(s, c) ==
    IF Len(s) > 0 /\ SubSeq(s, Len(s), Len(s)) = c
    THEN rtrim(SubSeq(s, 1, Len(s) - 1), c)
    ELSE s

RECURSIVE ltrim(_, _)
ltrim(s, c) ==
    IF Len(s) > 0 /\ SubSeq(s, 1, 1) = c THEN ltrim(Drop(s, 1), c) ELSE s

\* Index of the first occurrence of p in s at or after position i, 0 if none.
RECURSIVE IndexFrom(_, _, _)
IndexFrom(s, p, i) ==
    IF i + Len(p) - 1 > Len(s) THEN 0
    ELSE IF SubSeq(s, i, i + Len(p) - 1) = p THEN i
    ELSE IndexFrom(s, p, i + 1)

\* Percent-encoding of one character: rawurlencode and encodeURIComponent
\* agree on the characters the model's parameter values are made of.
EncodeChar(c) ==
    CASE c = " " -> "%20"
      [] c = "/" -> "%2F"
      [] c = "{" -> "%7B"
      [] c = "}" -> "%7D"
      [] c = "?" -> "%3F"
      [] OTHER   -> c

RECURSIVE rawurlencode(_)
rawurlencode(s) ==
    IF s = "" THEN "" ELSE EncodeChar(SubSeq(s, 1, 1)) \o rawurlencode(Drop(s, 1))

\* URLSearchParams serialisation (application/x-www-form-urlencoded).
FormEncodeChar(c) == IF c = " " THEN "+" ELSE EncodeChar(c)

RECURSIVE FormEncode(_)
FormEncode(s) ==
    IF s = "" THEN "" ELSE FormEncodeChar(SubSeq(s, 1, 1)) \o FormEncode(Drop(s, 1))

\* Parameters are an ordered list of <<key, value>> pairs (a PHP array, the
\* entries of a JS object).
RECURSIVE JoinPairs(_, _, _, _, _)
JoinPairs(ps, open, mid, close, sep) ==
    IF ps = <<>> THEN ""
    ELSE open \o ps[1][1] \o mid \o ps[1][2] \o close
         \o (IF Len(ps) > 1 THEN sep ELSE "")
         \o JoinPairs(Tail(ps), open, mid, close, sep)

\* json_encode($params) / JSON.stringify(bodyParams) of string values.
json_encode(ps) == "{" \o JoinPairs(ps, "\"", "\":\"", "\"", ",") \o "}"

HasKey(ps, k) == \E i \in 1..Len(ps) : ps[i][1] = k

ValueOf(ps, k) == ps[CHOOSE i \in 1..Len(ps) : ps[i][1] = k][2]

Without(ps, k) == SelectSeq(ps, LAMBDA p : p[1] # k)

Keys(ps) == {ps[i][1] : i \in 1..Len(ps)}

\* Header maps: name -> value. array_merge / Object.assign: right wins.
Merge(h1, h2) ==
    [n \in DOMAIN h1 \cup DOMAIN h2 |-> IF n \in DOMAIN h2 THEN h2[n] ELSE h1[n]]

NoHeaders == [n \in {} |-> ""]

\* ------------------------------------------------------------------ Signer
\* HMAC is a keyed one-way function: its digest is the symbolic value
\* determined by (algorithm, key, message) and by nothing else.
hash_hmac(algorithm, data, key) ==
    "hmac-" \o algorithm \o "[" \o key \o "](" \o data \o ")"

\* Variant: no separator after the timestamp of a body-less request.
buildSigningString_NoTrailingDot(timestamp, body) ==
    IF body = "" THEN ToString(timestamp) ELSE ToString(timestamp) \o "." \o body

\* Signer::buildSigningString: $timestamp . '.' . $body
buildSigningString(timestamp, body) == ToString(timestamp) \o "." \o body

\* Signer::sign (PHP)
Signer_sign(secret, timestamp, body, algorithm) ==
    hash_hmac(algorithm, buildSigningString(timestamp, body), secret)

\* Variant: the signature covers an empty body whatever is sent.
Signer_createSignedHeaders_EmptyBody(apiKey, secret, body, algorithm, prefix, clock) ==
    LET timestamp == clock
        signature == Signer_sign(secret, timestamp, "", algorithm)
    IN  ((prefix \o "Key") :> apiKey)
        @@ ((prefix \o "Signature") :> signature)
        @@ ((prefix \o "Timestamp") :> ToString(timestamp))

\* Signer::createSignedHeaders (PHP); clock is the reading of time().
Signer_createSignedHeaders(apiKey, secret, body, algorithm, prefix, clock) ==
    LET timestamp == clock
        signature == Signer_sign(secret, timestamp, body, algorithm)
    IN  ((prefix \o "Key") :> apiKey)
        @@ ((prefix \o "Signature") :> signature)
        @@ ((prefix \o "Timestamp") :> ToString(timestamp))

\* sign (Node): createHmac('sha256', secret).update(`${timestamp}.${body}`)
sign(secret, timestamp, body) ==
    LET payload == ToString(timestamp) \o "." \o body
    IN  hash_hmac("sha256", payload, secret)

\* Variant: the Key header carries the secret instead of the API key.
createSignedHeaders_SecretAsKey(apiKey, secret, body, prefix, clock) ==
    LET timestamp == clock
        signature == sign(secret, timestamp, body)
    IN  ((prefix \o "Key") :> secret)
        @@ ((prefix \o "Timestamp") :> ToString(timestamp))
        @@ ((prefix \o "Signature") :> signature)

\* createSignedHeaders (Node); clock is Math.floor(Date.now() / 1000).
createSignedHeaders(apiKey, secret, body, prefix, clock) ==
    LET timestamp == clock
        signature == sign(secret, timestamp, body)
    IN  ((prefix \o "Key") :> apiKey)
        @@ ((prefix \o "Timestamp") :> ToString(timestamp))
        @@ ((prefix \o "Signature") :> signature)

\* "Compute HMAC using the configured algorithm (sha256 or sha512)"
Algorithms == {"sha256", "sha512"}

\* abs($now - $timestamp)
Abs(n) == IF n < 0 THEN 0 - n ELSE n

\* hash_equals($expected, $provided): equality of the two strings.
hash_equals(known, user) == known = user

\* $maxAgeSeconds = 60
DefaultMaxAge == 60

\* Variant: the freshness check covers past timestamps only.
Signer_verify_PastOnly(secret, providedSignature, timestamp, body, algorithm, maxAgeSeconds, clock) ==
    IF clock - timestamp > maxAgeSeconds
    THEN [ok |-> FALSE, hmacs |-> 0]
    ELSE [ok |-> hash_equals(Signer_sign(secret, timestamp, body, algorithm),
                             providedSignature),
          hmacs |-> 1]

\* Variant: the expected signature is always computed with sha256.
Signer_verify_Sha256Only(secret, providedSignature, timestamp, body, algorithm, maxAgeSeconds, clock) ==
    IF Abs(clock - timestamp) > maxAgeSeconds
    THEN [ok |-> FALSE, hmacs |-> 0]
    ELSE [ok |-> hash_equals(Signer_sign(secret, timestamp, body, "sha256"),
                             providedSignature),
          hmacs |-> 1]

\* Signer::verify; clock is the reading of time(). ok is the value returned,
\* hmacs the number of HMACs computed on the way.
Signer_verify(secret, providedSignature, timestamp, body, algorithm, maxAgeSeconds, clock) ==
    IF Abs(clock - timestamp) > maxAgeSeconds
    THEN [ok |-> FALSE, hmacs |-> 0]
    ELSE [ok |-> hash_equals(Signer_sign(secret, timestamp, body, algorithm),
                             providedSignature),
          hmacs |-> 1]

\* ---------------------------------------------------------------- manifest
\* An endpoint group is an ordered list of <<name, endpoint>> pairs.
Endpoint(method, path) == [method |-> method, path |-> path]

PublicGroup ==
    << <<"search", Endpoint("GET", "/search")>>,
       <<"dup", Endpoint("GET", "/dup/public")>> >>

ProtectedGroup ==
    << <<"get_item", Endpoint("GET", "/items/{id}")>>,
       <<"create_order", Endpoint("POST", "/orders")>>,
       <<"cancel", Endpoint("DELETE", "/orders/{id}")>> >>

UserRequiredGroup ==
    << <<"my_orders", Endpoint("GET", "/me/orders")>>,
       <<"pay", Endpoint("POST", "/pay/{id}")>>,
       <<"dup", Endpoint("POST", "/dup/user")>> >>

\* api sections: which groups are present.
AllGroups ==
    [public |-> Some(PublicGroup), protected |-> Some(ProtectedGroup),
     user_required |-> Some(UserRequiredGroup)]

OnlyPublic ==
    [public |-> Some(PublicGroup), protected |-> None, user_required |-> None]

NoGroups == [public |-> None, protected |-> None, user_required |-> None]

\* "public": {} and no other group.
EmptyGroups == [public |-> Some(<<>>), protected |-> None, user_required |-> None]

SignedKey(algorithm, header_prefix) ==
    [algorithm |-> algorithm, header_prefix |-> header_prefix,
     register_url |-> "https://shop.example/ia/register"]

OAuth2Config ==
    [authorization_url |-> "https://shop.example/oauth/authorize",
     token_url |-> "https://shop.example/oauth/token"]

\* auth sections: signed_key with each declared algorithm.
AuthSha256 ==
    Some([signed_key |-> Some(SignedKey(Some("sha256"), None)),
          oauth2 |-> Some(OAuth2Config)])

AuthSha512 ==
    Some([signed_key |-> Some(SignedKey(Some("sha512"), Some("X-Shop-"))),
          oauth2 |-> None])

ShopSite == Some([name |-> Some("Shop"), type |-> Some("ecommerce")])

\* A parsed ia.json object; an absent member is None.
Doc(version, site, base_url, groups, auth) ==
    [version |-> version, site |-> site,
     api |-> Some([base_url |-> base_url, groups |-> groups]), auth |-> auth]

HttpsBase == Some("https://shop.example/api")

HttpBase == Some("http://shop.example/api")

\* Well-formed manifests, differing in what call() reads: the scheme of
\* base_url, the signing algorithm and header prefix, the groups present.
ClientDocuments ==
    { Doc(Some("1.0.0"), ShopSite, HttpsBase, AllGroups, AuthSha256),
      Doc(Some("1.0.0"), ShopSite, HttpsBase, AllGroups, AuthSha512),
      Doc(Some("1.0.0"), ShopSite, HttpBase, AllGroups, AuthSha256),
      Doc(Some("1.0.0"), ShopSite, HttpsBase, AllGroups, None),
      Doc(Some("1.0.0"), ShopSite, HttpsBase, OnlyPublic, None) }

Levels == <<"public", "protected", "user_required">>

\* $api[$level] ?? null / config.api[level]
GroupOf(api, level) ==
    CASE level = "public" -> api.groups.public
      [] level = "protected" -> api.groups.protected
      [] level = "user_required" -> api.groups.user_required

\* ------------------------------------------------------- PHP: OAuth helper
\* Seconds subtracted from expiresAt "to account for clock skew".
ExpiryBuffer == 30

NewOAuth == [accessToken |-> None, refreshToken |-> None, expiresAt |-> None]

\* Variant: no clock-skew buffer.
isExpired_NoBuffer(o, clock) ==
    IF IsNone(o.expiresAt) THEN FALSE
    ELSE clock >= Val(o.expiresAt)

\* OAuth::isExpired
isExpired(o, clock) ==
    IF IsNone(o.expiresAt) THEN FALSE
    ELSE clock >= Val(o.expiresAt) - ExpiryBuffer

\* The answers of the token endpoint to one token request.
TokenResponses ==
    { [kind |-> "ok", access_token |-> "otok2", refresh_token |-> None,
       expires_in |-> None],
      [kind |-> "transport", access_token |-> "", refresh_token |-> None,
       expires_in |-> None] }

\* Variant: a response without refresh_token clears the held refresh token.
requestToken_DropsRefreshToken(o, resp, clock) ==
    IF resp.kind = "transport"
    THEN [err |-> "oauth_token_failed", oauth |-> o]
    ELSE IF resp.kind # "ok" \/ resp.access_token = ""
    THEN [err |-> "invalid_token_response", oauth |-> o]
    ELSE [err |-> "",
          oauth |-> [accessToken |-> Some(resp.access_token),
                     refreshToken |-> resp.refresh_token,
                     expiresAt |-> IF IsSome(resp.expires_in)
                                   THEN Some(clock + Val(resp.expires_in))
                                   ELSE None]]

\* OAuth::requestToken: the helper after the response, and the exception.
requestToken(o, resp, clock) ==
    IF resp.kind = "transport"
    THEN [err |-> "oauth_token_failed", oauth |-> o]
    ELSE IF resp.kind # "ok" \/ resp.access_token = ""
    THEN [err |-> "invalid_token_response", oauth |-> o]
    ELSE [err |-> "",
          oauth |-> [accessToken |-> Some(resp.access_token),
                     refreshToken |-> IF IsSome(resp.refresh_token)
                                      THEN resp.refresh_token ELSE o.refreshToken,
                     expiresAt |-> IF IsSome(resp.expires_in)
                                   THEN Some(clock + Val(resp.expires_in))
                                   ELSE None]]

\* OAuth::getAccessToken: [err, token, oauth, refreshed].
getAccessToken(o, resp, clock) ==
    IF IsNone(o.accessToken)
    THEN [err |-> "missing_oauth_token", token |-> None, oauth |-> o,
          refreshed |-> FALSE]
    ELSE IF isExpired(o, clock) /\ IsSome(o.refreshToken)
    THEN LET r == requestToken(o, resp, clock)
         IN  [err |-> r.err,
              token |-> IF r.err = "" THEN r.oauth.accessToken ELSE None,
              oauth |-> r.oauth, refreshed |-> TRUE]
    ELSE [err |-> "", token |-> o.accessToken, oauth |-> o, refreshed |-> FALSE]

\* ------------------------------------------------------------ PHP: client
\* isset($endpoints[$name]) and $endpoints[$name] on one group.
InGroup(group, name) == IsSome(group) /\ HasKey(Val(group), name)

\* Variant: a name no group holds resolves to a public GET of /{name}.
PhpResolveEndpoint_Fallback(spec, name) ==
    LET api == Val(spec.api)
        hits == {i \in 1..Len(Levels) : InGroup(GroupOf(api, Levels[i]), name)}
    IN  IF hits = {}
        THEN Some([endpoint |-> Endpoint("GET", "/" \o name), level |-> "public"])
        ELSE LET i == CHOOSE j \in hits : \A k \in hits : j <= k
             IN  Some([endpoint |-> ValueOf(Val(GroupOf(api, Levels[i])), name),
                       level |-> Levels[i]])

\* IaJsonClient::resolveEndpoint: the first level, in the fixed order, whose
\* group holds the name; None when no group does (endpoint_not_found).
PhpResolveEndpoint(spec, name) ==
    LET api == Val(spec.api)
        hits == {i \in 1..Len(Levels) : InGroup(GroupOf(api, Levels[i]), name)}
    IN  IF hits = {} THEN None
        ELSE LET i == CHOOSE j \in hits : \A k \in hits : j <= k
             IN  Some([endpoint |-> ValueOf(Val(GroupOf(api, Levels[i])), name),
                       level |-> Levels[i]])

WordChars ==
    {"a", "b", "c", "d", "e", "f", "g", "h", "i", "j", "k", "l", "m", "n", "o",
     "p", "q", "r", "s", "t", "u", "v", "w", "x", "y", "z", "_", "0", "1", "2",
     "3", "4", "5", "6", "7", "8", "9"}

\* Length of the longest run of \w characters of s that starts at i.
RECURSIVE WordRun(_, _)
WordRun(s, i) ==
    IF i <= Len(s) /\ SubSeq(s, i, i) \in WordChars THEN 1 + WordRun(s, i + 1) ELSE 0

\* IaJsonClient::substitutePath: preg_replace_callback('/\{(\w+)\}/', ...),
\* every match replaced left to right, the used parameter unset.
\* [err, path, params]; on a throw, path and params are those reached so far.
RECURSIVE PhpSubstitutePath(_, _)
PhpSubstitutePath(path, params) ==
    LET i == IndexFrom(path, "{", 1)
    IN  IF i = 0 THEN [err |-> "", path |-> path, params |-> params]
        ELSE LET n == WordRun(path, i + 1)
                 j == i + n + 1
                 head == SubSeq(path, 1, i)
             IN  IF n > 0 /\ j <= Len(path) /\ SubSeq(path, j, j) = "}"
                 THEN LET paramName == SubSeq(path, i + 1, j - 1)
                      IN  IF ~HasKey(params, paramName)
                          THEN [err |-> "missing_parameter", path |-> path,
                                params |-> params]
                          ELSE LET rest == PhpSubstitutePath(Drop(path, j),
                                               Without(params, paramName))
                               IN  [err |-> rest.err,
                                    path |-> SubSeq(path, 1, i - 1)
                                             \o rawurlencode(ValueOf(params, paramName))
                                             \o rest.path,
                                    params |-> rest.params]
                 ELSE LET rest == PhpSubstitutePath(Drop(path, i), params)
                      IN  [err |-> rest.err, path |-> head \o rest.path,
                           params |-> rest.params]

\* Guzzle's 'query' option: the parameters as the URL's query string.
http_build_query(ps) == JoinPairs([i \in 1..Len(ps) |->
                            <<rawurlencode(ps[i][1]), rawurlencode(ps[i][2])>>],
                            "", "=", "", "&")

\* Variant: no access level is exempt from authentication.
PhpIsPublic_Never(level) == FALSE

\* applyAuth's first test: a public endpoint gets no authentication.
PhpIsPublic(level) == level = "public"

\* IaJsonClient::applyAuth: [err, headers, oauth, refreshed].
\* c is the client ([spec, apiKey, secret, oauthToken, oauth]).
PhpApplyAuth(c, headers, level, body, resp, clock) ==
    IF PhpIsPublic(level)
    THEN [err |-> "", headers |-> headers, oauth |-> c.oauth, refreshed |-> FALSE]
    ELSE IF IsNone(c.apiKey) \/ IsNone(c.secret)
    THEN [err |-> "missing_credentials", headers |-> headers, oauth |-> c.oauth,
          refreshed |-> FALSE]
    ELSE
    LET auth == c.spec.auth
        signedKeyConfig == IF IsSome(auth) THEN Val(auth).signed_key ELSE None
        algorithm == IF IsSome(signedKeyConfig) /\ IsSome(Val(signedKeyConfig).algorithm)
                     THEN Val(Val(signedKeyConfig).algorithm) ELSE "sha256"
        prefix == IF IsSome(signedKeyConfig) /\ IsSome(Val(signedKeyConfig).header_prefix)
                  THEN Val(Val(signedKeyConfig).header_prefix) ELSE "X-IA-"
        signedHeaders == Signer_createSignedHeaders(Val(c.apiKey), Val(c.secret),
                             body, algorithm, prefix, clock)
        signed == Merge(headers, signedHeaders)
    IN  IF level # "user_required"
        THEN [err |-> "", headers |-> signed, oauth |-> c.oauth, refreshed |-> FALSE]
        ELSE
        \* Only an AuthenticationException of the helper is swallowed.
        LET useHelper == IsNone(c.oauthToken) /\ IsSome(c.oauth)
            got == IF useHelper THEN getAccessToken(Val(c.oauth), resp, clock)
                   ELSE [err |-> "", token |-> c.oauthToken, oauth |-> NewOAuth,
                         refreshed |-> FALSE]
            oauth2 == IF useHelper THEN Some(got.oauth) ELSE c.oauth
            token == IF got.err = "" THEN got.token ELSE None
        IN  IF got.err \notin {"", "missing_oauth_token"}
            THEN [err |-> got.err, headers |-> signed, oauth |-> oauth2,
                  refreshed |-> got.refreshed]
            ELSE IF IsNone(token)
            THEN [err |-> "missing_oauth_token", headers |-> signed,
                  oauth |-> oauth2, refreshed |-> got.refreshed]
            ELSE [err |-> "",
                  headers |-> Merge(signed, "Authorization" :> ("Bearer " \o Val(token))),
                  oauth |-> oauth2, refreshed |-> got.refreshed]

\* What one call() produced: the exception (err, "" when none), the level
\* the name resolved to, and the request handed to the transport, if any.
Outcome(err, level, request, oauth, refreshed) ==
    [err |-> err, level |-> level, request |-> request, oauth |-> oauth,
     refreshed |-> refreshed]

Request(method, url, headers, body) ==
    [method |-> method, url |-> url, headers |-> headers, body |-> body]

\* IaJsonClient::call (PHP) up to the hand-over to the transport.
PhpCallOutcome(c, endpointName, params, resp, clock) ==
    LET resolved == PhpResolveEndpoint(c.spec, endpointName)
    IN  IF IsNone(resolved)
        THEN Outcome("endpoint_not_found", None, None, c.oauth, FALSE)
        ELSE
        LET level == Val(resolved).level
            method == Val(resolved).endpoint.method
            baseUrl == Val(Val(c.spec.api).base_url)
            sub == PhpSubstitutePath(Val(resolved).endpoint.path, params)
        IN  IF sub.err # ""
            THEN Outcome(sub.err, Some(level), None, c.oauth, FALSE)
            ELSE
            LET url == rtrim(baseUrl, "/") \o "/" \o ltrim(sub.path, "/")
                base == ("Accept" :> "application/json")
                        @@ ("User-Agent" :> "iajson-php/1.0.0")
                hasBody == method \in {"POST", "PUT", "PATCH"} /\ sub.params # <<>>
                hasQuery == ~hasBody /\ method = "GET" /\ sub.params # <<>>
                body == IF hasBody THEN json_encode(sub.params) ELSE ""
                headers == IF hasBody
                           THEN Merge(base, "Content-Type" :> "application/json")
                           ELSE base
                full == IF hasQuery THEN url \o "?" \o http_build_query(sub.params)
                        ELSE url
                auth == PhpApplyAuth(c, headers, level, body, resp, clock)
            IN  IF auth.err # ""
                THEN Outcome(auth.err, Some(level), None, auth.oauth, auth.refreshed)
                ELSE Outcome("", Some(level),
                         Some(Request(method, full, auth.headers,
                                      IF hasBody THEN Some(body) ELSE None)),
                         auth.oauth, auth.refreshed)

\* ------------------------------------------------------------ Node: client
\* Truthiness of an optional string: undefined and '' are falsy.
Truthy(o) == IsSome(o) /\ Val(o) # ""

\* IaJsonClient.buildEndpointIndex: index.set(name, ...) for every entry of
\* every present group, in level order; a later set replaces an earlier one.
RECURSIVE NodeIndexGroup(_, _, _)
NodeIndexGroup(index, level, entries) ==
    IF entries = <<>> THEN index
    ELSE NodeIndexGroup(
             Merge(index, entries[1][1] :>
                       [name |-> entries[1][1], level |-> level,
                        endpoint |-> entries[1][2]]),
             level, Tail(entries))

RECURSIVE NodeIndexLevels(_, _, _)
NodeIndexLevels(index, api, i) ==
    IF i > Len(Levels) THEN index
    ELSE LET group == GroupOf(api, Levels[i])
         IN  NodeIndexLevels(
                 IF IsNone(group) THEN index
                 ELSE NodeIndexGroup(index, Levels[i], Val(group)),
                 api, i + 1)

NodeBuildEndpointIndex(config) ==
    NodeIndexLevels([n \in {} |-> [name |-> "", level |-> "",
                                   endpoint |-> Endpoint("", "")]],
                    Val(config.api), 1)

\* The URL parser percent-encodes these characters of a path.
UrlPathChar(c) ==
    CASE c = " " -> "%20"
      [] c = "{" -> "%7B"
      [] c = "}" -> "%7D"
      [] OTHER   -> c

RECURSIVE UrlPathEncode(_)
UrlPathEncode(s) ==
    IF s = "" THEN "" ELSE UrlPathChar(SubSeq(s, 1, 1)) \o UrlPathEncode(Drop(s, 1))

\* scheme://host of an absolute URL, and its path.
UrlOrigin(u) ==
    LET a == IndexFrom(u, "://", 1)
        b == IndexFrom(u, "/", a + 3)
    IN  IF b = 0 THEN u ELSE SubSeq(u, 1, b - 1)

UrlScheme(u) == SubSeq(u, 1, IndexFrom(u, "://", 1) - 1)

UrlPath(u) == LET o == UrlOrigin(u) IN IF Len(u) = Len(o) THEN "/" ELSE Drop(u, Len(o))

\* The path up to and including its last "/".
RECURSIVE UrlDir(_)
UrlDir(path) ==
    IF path = "" \/ SubSeq(path, Len(path), Len(path)) = "/" THEN path
    ELSE UrlDir(SubSeq(path, 1, Len(path) - 1))

\* new URL(relative, base).toString()
NodeURL(relative, base) ==
    IF StartsWith(relative, "https://") \/ StartsWith(relative, "http://")
    THEN UrlOrigin(relative) \o UrlPathEncode(UrlPath(relative))
    ELSE IF StartsWith(relative, "//")
    THEN LET abs == UrlScheme(base) \o ":" \o relative
         IN  UrlOrigin(abs) \o UrlPathEncode(UrlPath(abs))
    ELSE IF StartsWith(relative, "/")
    THEN UrlOrigin(base) \o UrlPathEncode(relative)
    ELSE UrlOrigin(base) \o UrlPathEncode(UrlDir(UrlPath(base)) \o relative)

\* String.prototype.replace(placeholder, value): the first occurrence only.
ReplaceFirst(s, p, v) ==
    LET i == IndexFrom(s, p, 1)
    IN  IF i = 0 THEN s ELSE SubSeq(s, 1, i - 1) \o v \o Drop(s, i + Len(p) - 1)

\* The loop of call() over Object.entries(params):
\* [path, query, body] after the entries from i on.
RECURSIVE NodeDistribute(_, _, _, _)
NodeDistribute(acc, method, params, i) ==
    IF i > Len(params) THEN acc
    ELSE LET key == params[i][1]
             value == params[i][2]
             placeholder == "{" \o key \o "}"
         IN  NodeDistribute(
                 IF Contains(acc.path, placeholder)
                 THEN [acc EXCEPT !.path =
                           ReplaceFirst(acc.path, placeholder, rawurlencode(value))]
                 ELSE IF method = "GET" \/ method = "DELETE"
                 THEN [acc EXCEPT !.query = Append(Without(acc.query, key),
                                                    <<key, value>>)]
                 ELSE [acc EXCEPT !.body = Append(Without(acc.body, key),
                                                   <<key, value>>)],
                 method, params, i + 1)

\* url.searchParams.set(key, value) for every query parameter.
NodeSearch(query) ==
    IF query = <<>> THEN ""
    ELSE "?" \o JoinPairs([i \in 1..Len(query) |->
                              <<FormEncode(query[i][1]), FormEncode(query[i][2])>>],
                          "", "=", "", "&")

\* IaJsonClient.call (Node) up to fetch().
\* c is the client ([spec, credentials, accessToken]).
NodeCallOutcome(c, endpointName, params, clock) ==
    LET index == NodeBuildEndpointIndex(c.spec)
    IN  IF endpointName \notin DOMAIN index
        THEN Outcome("unknown_endpoint", None, None, c.oauth, FALSE)
        ELSE
        LET level == index[endpointName].level
            method == index[endpointName].endpoint.method
            d == NodeDistribute([path |-> index[endpointName].endpoint.path,
                                 query |-> <<>>, body |-> <<>>], method, params, 1)
            url == NodeURL(d.path, Val(Val(c.spec.api).base_url)) \o NodeSearch(d.query)
            hasBody == method # "GET" /\ method # "DELETE" /\ d.body # <<>>
            bodyString == IF hasBody THEN json_encode(d.body) ELSE ""
            h0 == IF hasBody
                  THEN ("Accept" :> "application/json")
                       @@ ("Content-Type" :> "application/json")
                  ELSE ("Accept" :> "application/json")
            auth == c.spec.auth
            signedKey == IF IsSome(auth) THEN Val(auth).signed_key ELSE None
            prefix == IF IsSome(signedKey) /\ IsSome(Val(signedKey).header_prefix)
                      THEN Val(Val(signedKey).header_prefix) ELSE "X-IA-"
            h1 == IF level # "public" /\ IsSome(c.credentials)
                  THEN Merge(h0, createSignedHeaders(Val(c.credentials).api_key,
                                     Val(c.credentials).secret, bodyString, prefix,
                                     clock))
                  ELSE h0
            h2 == IF level = "user_required" /\ Truthy(c.accessToken)
                  THEN Merge(h1, "Authorization" :> ("Bearer " \o Val(c.accessToken)))
                  ELSE h1
        IN  IF level = "protected" /\ IsNone(c.credentials)
            THEN Outcome("authentication_error", Some(level), None, c.oauth, FALSE)
            ELSE IF level = "user_required" /\ ~Truthy(c.accessToken)
                    /\ IsNone(c.credentials)
            THEN Outcome("authentication_error", Some(level), None, c.oauth, FALSE)
            ELSE Outcome("", Some(level),
                     Some(Request(method, url, h2,
                                  IF hasBody THEN Some(bodyString) ELSE None)),
                     c.oauth, FALSE)

\* --------------------------------------------------------------- validation
Digits == {"0", "1", "2", "3", "4", "5", "6", "7", "8", "9"}

RECURSIVE DigitRun(_, _)
DigitRun(s, i) ==
    IF i <= Len(s) /\ SubSeq(s, i, i) \in Digits THEN 1 + DigitRun(s, i + 1) ELSE 0

\* /^\d+\.\d+\.\d+$/.test(version)
IsSemver(s) ==
    LET a == DigitRun(s, 1)
        b == DigitRun(s, a + 2)
        c == DigitRun(s, a + b + 3)
    IN  /\ a > 0 /\ b > 0 /\ c > 0
        /\ Len(s) = a + b + c + 2
        /\ SubSeq(s, a + 1, a + 1) = "."
        /\ SubSeq(s, a + b + 2, a + b + 2) = "."

\* explode('.', $version)[0]
MajorOf(version) ==
    LET i == IndexFrom(version, ".", 1)
    IN  IF i = 0 THEN version ELSE SubSeq(version, 1, i - 1)

SUPPORTED_MAJOR_VERSION == "1"

\* Discovery::validate (PHP): the errorCode thrown, "" when data is returned.
PhpValidate(data) ==
    IF IsNone(data.version) \/ IsNone(data.site) \/ IsNone(data.api)
    THEN "validation_error"
    ELSE IF MajorOf(Val(data.version)) # SUPPORTED_MAJOR_VERSION
    THEN "unsupported_version"
    ELSE IF IsNone(Val(data.site).name) \/ IsNone(Val(data.site).type)
    THEN "validation_error"
    ELSE IF IsNone(Val(data.api).base_url)
    THEN "validation_error"
    ELSE IF ~(\/ IsSome(Val(data.api).groups.public)
              \/ IsSome(Val(data.api).groups.protected)
              \/ IsSome(Val(data.api).groups.user_required))
    THEN "validation_error"
    ELSE ""

\* validate (Node): "" when data passes, else the DiscoveryError raised.
NodeValidate(data) ==
    IF IsNone(data.version) \/ ~IsSemver(Val(data.version))
    THEN "invalid_version"
    ELSE IF IsNone(data.site)
    THEN "invalid_site"
    ELSE IF IsNone(Val(data.site).name) \/ Val(Val(data.site).name) = ""
    THEN "invalid_site_name"
    ELSE IF IsNone(Val(data.site).type)
    THEN "invalid_site_type"
    ELSE IF IsNone(data.api)
    THEN "invalid_api"
    ELSE IF IsNone(Val(data.api).base_url)
            \/ ~StartsWith(Val(Val(data.api).base_url), "https://")
    THEN "invalid_base_url"
    ELSE IF ~(\E i \in 1..Len(Levels) : IsSome(GroupOf(Val(data.api), Levels[i])))
    THEN "no_endpoint_group"
    ELSE ""

Validate(port, data) == IF port = "php" THEN PhpValidate(data) ELSE NodeValidate(data)


\* --------------------------------------------------------------- discovery
MAX_FILE_SIZE == 1048576

\* Variant: the well-known location is tried first.
DISCOVERY_PATHS_Swapped == <<"/.well-known/ia.json", "/ia.json">>

\* "Well-known paths where ia.json may be hosted, tried in order"
DISCOVERY_PATHS == <<"/ia.json", "/.well-known/ia.json">>

\* A response to a discovery GET. kind is "http" or "transport" (no response:
\* timeout, DNS, TLS). json is what the body parses to: "object" (doc is the
\* object), "array", "scalar", or "invalid" (no JSON at all).
Response(kind, status, contentType, json, doc, size) ==
    [kind |-> kind, status |-> status, contentType |-> contentType, json |-> json,
     doc |-> doc, size |-> size]

GoodDoc == Doc(Some("1.0.0"), ShopSite, HttpsBase, AllGroups, AuthSha256)

OtherGoodDoc == Doc(Some("1.0.0"), ShopSite, HttpsBase, OnlyPublic, None)

\* The JSON objects the model's sites serve as ia.json.
ServedDocuments ==
    { GoodDoc, OtherGoodDoc,
      Doc(Some("1.0.0"), ShopSite, HttpBase, AllGroups, AuthSha256),
      Doc(Some("2.0.0"), ShopSite, HttpsBase, AllGroups, AuthSha256),
      Doc(Some("1.0.0"), ShopSite, HttpsBase, NoGroups, None),
      Doc(Some("1"), ShopSite, HttpsBase, AllGroups, AuthSha256),
      Doc(Some("1.0.0"), ShopSite, HttpsBase, EmptyGroups, None) }

JsonObject(doc) == Response("http", 200, "application/json", "object", doc, 2000)

NotFound404 == Response("http", 404, "text/html", "invalid", GoodDoc, 100)

Responses ==
    {JsonObject(d) : d \in ServedDocuments}
    \cup { NotFound404,
           Response("http", 500, "text/html", "invalid", GoodDoc, 100),
           Response("transport", 0, "", "invalid", GoodDoc, 0),
           Response("http", 200, "application/json", "invalid", GoodDoc, 100),
           Response("http", 200, "application/json", "scalar", GoodDoc, 4),
           Response("http", 200, "application/json", "array", GoodDoc, 2),
           Response("http", 200, "application/json", "object", GoodDoc,
                    MAX_FILE_SIZE + 1),
           Response("http", 200, "application/json", "object", GoodDoc,
                    MAX_FILE_SIZE),
           Response("http", 200, "text/html", "object", GoodDoc, 2000) }

\* The result of tryFetch or of discover: data when status is "ok", null
\* (404) when it is "null", else the error thrown.
Fetched(data) == [status |-> "ok", data |-> data, code |-> "", message |-> ""]

FetchedNull == [status |-> "null", data |-> GoodDoc, code |-> "", message |-> ""]

Thrown(code, message) ==
    [status |-> "error", data |-> GoodDoc, code |-> code, message |-> message]

\* Discovery::normalizeDomain (PHP): "" stands for the invalid_domain throw.
PhpNormalizeDomain(domain) ==
    LET a == IF StartsWith(domain, "https://") THEN Drop(domain, 8)
             ELSE IF StartsWith(domain, "http://") THEN Drop(domain, 7)
             ELSE domain
        i == IndexFrom(a, "/", 1)
        b == IF i = 0 THEN a ELSE SubSeq(a, 1, i - 1)
    IN  rtrim(b, ".")

\* discover (Node): domain.replace(/^https?:\/\//, '').replace(/\/+$/, '')
NodeCleanDomain(domain) ==
    LET a == IF StartsWith(domain, "https://") THEN Drop(domain, 8)
             ELSE IF StartsWith(domain, "http://") THEN Drop(domain, 7)
             ELSE domain
    IN  rtrim(a, "/")

\* Variant: every error status moves on to the next location.
PhpIsNotFound_AnyError(statusCode) == statusCode >= 400

\* tryFetch: "Not found - try the next location".
PhpIsNotFound(statusCode) == statusCode = 404

\* Discovery::tryFetch (PHP)
PhpTryFetch(url, resp) ==
    IF resp.kind = "transport"
    THEN Thrown("network_error", "HTTP error fetching ia.json from " \o url \o ": ")
    ELSE IF PhpIsNotFound(resp.status)
    THEN FetchedNull
    ELSE IF resp.status >= 400
    THEN Thrown("fetch_failed", "Failed to fetch ia.json from " \o url \o ": HTTP "
                                    \o ToString(resp.status))
    ELSE IF resp.size > MAX_FILE_SIZE
    THEN Thrown("file_too_large", "ia.json file at " \o url
                                      \o " exceeds the 1 MB size limit")
    ELSE IF resp.json = "invalid"
    THEN Thrown("parse_error", "Failed to parse ia.json from " \o url \o ": ")
    ELSE IF resp.json = "scalar"
    THEN Thrown("invalid_format", "ia.json at " \o url \o " is not a valid JSON object")
    ELSE IF resp.json = "array"
    \* is_array() holds of a decoded JSON array: it is returned as data
    \* without any member.
    THEN Fetched([version |-> None, site |-> None, api |-> None, auth |-> None])
    ELSE Fetched(resp.doc)

\* The message of the exception Discovery::validate throws with errorCode.
PhpValidateMessage(errorCode, data, url) ==
    IF errorCode = "unsupported_version"
    THEN "Unsupported ia.json major version: " \o Val(data.version)
         \o ". This client supports version " \o SUPPORTED_MAJOR_VERSION \o ".x.x"
    ELSE "ia.json at " \o url \o " is invalid"

\* $data = tryFetch($url); if ($data !== null) return validate($data, $url);
PhpFetchAt(url, resp) ==
    LET got == PhpTryFetch(url, resp)
    IN  IF got.status # "ok" THEN got
        ELSE IF PhpValidate(got.data) # ""
        THEN Thrown(PhpValidate(got.data),
                    PhpValidateMessage(PhpValidate(got.data), got.data, url))
        ELSE got

\* Variant: the failure names the last location only.
PhpNotFound_LastOnly(domain, primaryUrl, wellKnownUrl) ==
    Thrown("not_found", "No ia.json file found at " \o domain \o ". Tried "
                            \o wellKnownUrl)

\* Discovery::fetch, step 3: neither location has ia.json.
PhpNotFound(domain, primaryUrl, wellKnownUrl) ==
    Thrown("not_found", "No ia.json file found at " \o domain \o ". Tried "
                            \o primaryUrl \o " and " \o wellKnownUrl)

\* tryFetch (Node), validate included.
NodeTryFetch(url, resp) ==
    IF resp.kind = "transport"
    THEN Thrown("network_error", "Network error fetching " \o url \o ": ")
    ELSE IF resp.status = 404
    THEN FetchedNull
    ELSE IF ~(resp.status >= 200 /\ resp.status <= 299)
    THEN Thrown("http_error", "HTTP " \o ToString(resp.status) \o " fetching " \o url)
    ELSE IF ~Contains(resp.contentType, "json") /\ ~Contains(resp.contentType, "text/plain")
    THEN Thrown("content_type", "Unexpected content-type \"" \o resp.contentType
                                    \o "\" from " \o url)
    ELSE IF resp.json = "invalid"
    THEN Thrown("invalid_json", "Invalid JSON in response from " \o url)
    ELSE IF resp.json = "scalar"
    THEN Thrown("not_an_object", "ia.json response is not a JSON object")
    ELSE LET data == IF resp.json = "array"
                     THEN [version |-> None, site |-> None, api |-> None, auth |-> None]
                     ELSE resp.doc
         IN  IF NodeValidate(data) # ""
             THEN Thrown(NodeValidate(data), "ia.json is invalid")
             ELSE Fetched(data)

\* discover (Node): the throw after the loop over DISCOVERY_PATHS.
NodeNotFound(cleanDomain) ==
    Thrown("not_found", "No ia.json found at " \o cleanDomain
                            \o " (tried /ia.json and /.well-known/ia.json)")

FetchAt(p, url, resp) ==
    IF p = "php" THEN PhpFetchAt(url, resp) ELSE NodeTryFetch(url, resp)

NormalizeDomain(p, domain) ==
    IF p = "php" THEN PhpNormalizeDomain(domain) ELSE NodeCleanDomain(domain)

NotFoundOf(p, domain) ==
    IF p = "php"
    THEN PhpNotFound(domain, "https://" \o domain \o DISCOVERY_PATHS[1],
                     "https://" \o domain \o DISCOVERY_PATHS[2])
    ELSE NodeNotFound(domain)

\* ------------------------------------------------- call(): the response
\* What the transport hands back to call(): a response with its status, its
\* Retry-After header (None when absent) and the error.code of its JSON body
\* (None when the body has none), or no response at all (kind "transport").
CallResponse(kind, status, retryAfter, errorCode) ==
    [kind |-> kind, status |-> status, retryAfter |-> retryAfter,
     errorCode |-> errorCode]

Statuses == {200, 204, 304, 400, 401, 403, 404, 429, 500}

RetryAfterValues == {None, Some("30"), Some("soon")}

BodyErrorCodes == {None, Some("invalid_signature"), Some("rate_limit_exceeded")}

CallResponses ==
    { CallResponse("http", st, ra, ec) :
          st \in Statuses, ra \in RetryAfterValues, ec \in BodyErrorCodes }
    \cup { CallResponse("transport", 0, None, None) }

\* What call() does with a response: it returns it (class "") or throws an
\* exception of the class, with its error code, HTTP status and retryAfter.
Handled(class, errorCode, code, retryAfter) ==
    [class |-> class, errorCode |-> errorCode, code |-> code,
     retryAfter |-> retryAfter]

DigitValue(c) ==
    CASE c = "0" -> 0 [] c = "1" -> 1 [] c = "2" -> 2 [] c = "3" -> 3 [] c = "4" -> 4
      [] c = "5" -> 5 [] c = "6" -> 6 [] c = "7" -> 7 [] c = "8" -> 8 [] c = "9" -> 9

\* The number the leading decimal digits of s denote, from acc on.
RECURSIVE DecimalOf(_, _)
DecimalOf(s, acc) ==
    IF s = "" \/ SubSeq(s, 1, 1) \notin Digits THEN acc
    ELSE DecimalOf(Drop(s, 1), acc * 10 + DigitValue(SubSeq(s, 1, 1)))

\* (int) $retryHeader: the leading digits, 0 when there are none.
PhpIntCast(s) == DecimalOf(s, 0)

\* parseInt(s, 10), NaN mapped to undefined by Number.isFinite.
NodeParseInt(s) ==
    IF s = "" \/ SubSeq(s, 1, 1) \notin Digits THEN None ELSE Some(DecimalOf(s, 0))

\* RateLimitException::fromResponseWithHeaders
PhpRateLimit(resp) ==
    Handled("RateLimitException", Some("rate_limit_exceeded"), 429,
            IF IsSome(resp.retryAfter) THEN Some(PhpIntCast(Val(resp.retryAfter)))
            ELSE None)

\* IaJsonClient::handleErrorResponse
PhpHandleErrorResponse(resp) ==
    IF resp.status = 429 THEN PhpRateLimit(resp)
    ELSE IF resp.status = 401 \/ resp.status = 403
    THEN Handled("AuthenticationException", resp.errorCode, resp.status, None)
    ELSE Handled("IaJsonException", resp.errorCode, resp.status, None)

\* IaJsonClient::call (PHP) from the transport's answer on.
PhpHandleResponse(resp) ==
    IF resp.kind = "transport"
    THEN Handled("IaJsonException", Some("request_failed"), 0, None)
    ELSE IF resp.status >= 400 THEN PhpHandleErrorResponse(resp)
    ELSE Handled("", None, resp.status, None)

\* IaJsonClient.call (Node) from fetch() on; a rejected fetch propagates.
NodeHandleResponse(resp) ==
    IF resp.kind = "transport" THEN Handled("TypeError", None, 0, None)
    ELSE IF resp.status = 429
    THEN Handled("RateLimitError", None, 429,
                 IF Truthy(resp.retryAfter) THEN NodeParseInt(Val(resp.retryAfter))
                 ELSE None)
    ELSE Handled("", None, resp.status, None)

HandleResponse(p, resp) ==
    IF p = "php" THEN PhpHandleResponse(resp) ELSE NodeHandleResponse(resp)

\* ------------------------------------------------------------------- state
VARIABLES
    port,         \* "php" or "node": the library the client is an instance of
    spec,         \* PHP $spec / Node config: the manifest the client was built on
    apiKey,       \* PHP ?string $apiKey
    secret,       \* PHP ?string $secret
    oauthToken,   \* PHP ?string $oauthToken
    oauth,        \* PHP ?OAuth $oauth
    credentials,  \* Node credentials?: Credentials
    accessToken,  \* Node accessToken?: string
    now,          \* the wall clock, in seconds
    last,         \* what the step just taken did, when it was a call()
    dPc,          \* discovery: "idle", "primary", "wellknown" or "done"
    dInput,       \* discovery: the domain argument of discover
    dDomain,      \* discovery: the normalized domain
    dRequests,    \* discovery: the URLs requested so far, in order
    dResponses,   \* discovery: the responses received so far, in order
    dResult,      \* discovery: what discover returned or threw
    handled,      \* the response call() just received and what it did with it
    sv,           \* Signer: the sign or verify just evaluated and its result
    mw,           \* VerifyIaSignature: the request just handled and the answer
    reg,          \* registration: the step just taken and what it did
    pk,           \* OAuth: the authorization URL just built
    tk,           \* OAuth: the token calls under way and the step just taken
    vd,           \* validator: the document just validated and the result
    ep            \* IaJsonClient::getEndpoints: the listing just returned

clientVars == <<port, spec, apiKey, secret, oauthToken, oauth, credentials,
                accessToken, now, last>>

discoveryVars == <<dPc, dInput, dDomain, dRequests, dResponses, dResult>>

responseVars == <<handled>>

auxVars == <<sv, mw, reg, pk, tk, vd, ep>>

vars == <<clientVars, discoveryVars, responseVars, auxVars>>

Ports == {"php", "node"}

ApiKeys == {"ak_1"}

Secrets == {"sec_1", "sec_2"}

Tokens == {"utok"}

EndpointNames ==
    {"search", "get_item", "create_order", "cancel", "pay", "dup", "nope"}

ParamChoices ==
    { <<>>, << <<"id", "7">> >>, << <<"q", "a b">>, <<"id", "7">> >> }

Client ==
    [spec |-> spec, apiKey |-> apiKey, secret |-> secret, oauthToken |-> oauthToken,
     oauth |-> oauth, credentials |-> credentials, accessToken |-> accessToken]

NoOutcome == Outcome("", None, None, None, FALSE)

\* The token endpoint's answer when no token request is sent.
NoResponse ==
    [kind |-> "none", access_token |-> "", refresh_token |-> None,
     expires_in |-> None]

DiscoveryIdle ==
    /\ dPc = "idle"
    /\ dInput = ""
    /\ dDomain = ""
    /\ dRequests = <<>>
    /\ dResponses = <<>>
    /\ dResult = FetchedNull

NotHandled ==
    [received |-> FALSE, resp |-> CallResponse("transport", 0, None, None),
     out |-> Handled("", None, 0, None)]

ResponseIdle == handled = NotHandled

\* Nothing signed, verified, registered or built yet.
Idle == [op |-> "none"]

AuxIdle ==
    /\ sv = Idle /\ mw = Idle /\ reg = Idle /\ pk = Idle
    /\ tk = Idle /\ vd = Idle /\ ep = Idle

NoCall ==
    [called |-> FALSE, name |-> "", params |-> <<>>, resp |-> NoResponse,
     out |-> NoOutcome, preOauth |-> None]

Init ==
    /\ port \in Ports
    \* the manifests discovery returns for the port
    /\ spec \in {d \in ClientDocuments : Validate(port, d) = ""}
    /\ apiKey = None
    /\ secret = None
    /\ oauthToken = None
    /\ oauth = None
    /\ credentials = None
    /\ accessToken = None
    /\ now = 0
    /\ last = NoCall
    /\ DiscoveryIdle
    /\ ResponseIdle
    /\ AuxIdle

\* The clock advances.
Tick ==
    /\ now < MaxClock
    /\ now' = now + 1
    /\ last' = NoCall
    /\ UNCHANGED <<port, spec, apiKey, secret, oauthToken, oauth, credentials,
                   accessToken>>
    /\ UNCHANGED <<discoveryVars, responseVars, auxVars>>

\* IaJsonClient::setCredentials
PhpSetCredentials(k, s) ==
    /\ port = "php"
    /\ apiKey' = Some(k)
    /\ secret' = Some(s)
    /\ last' = NoCall
    /\ UNCHANGED <<port, spec, oauthToken, oauth, credentials, accessToken, now>>
    /\ UNCHANGED <<discoveryVars, responseVars, auxVars>>

\* IaJsonClient::setOAuthToken
PhpSetOAuthToken(t) ==
    /\ port = "php"
    /\ oauthToken' = Some(t)
    /\ last' = NoCall
    /\ UNCHANGED <<port, spec, apiKey, secret, oauth, credentials, accessToken, now>>
    /\ UNCHANGED <<discoveryVars, responseVars, auxVars>>

\* IaJsonClient::getOAuth: the helper is created once, from auth.oauth2.
PhpGetOAuth ==
    /\ port = "php"
    /\ IsNone(oauth)
    /\ IsSome(spec.auth) /\ IsSome(Val(spec.auth).oauth2)
    /\ oauth' = Some(NewOAuth)
    /\ last' = NoCall
    /\ UNCHANGED <<port, spec, apiKey, secret, oauthToken, credentials, accessToken,
                   now>>
    /\ UNCHANGED <<discoveryVars, responseVars, auxVars>>

\* OAuth::setTokens on the held helper.
PhpSetTokens(a, r, expiresIn) ==
    /\ port = "php"
    /\ IsSome(oauth)
    /\ oauth' = Some([accessToken |-> Some(a), refreshToken |-> r,
                      expiresAt |-> IF IsSome(expiresIn)
                                    THEN Some(now + Val(expiresIn)) ELSE None])
    /\ last' = NoCall
    /\ UNCHANGED <<port, spec, apiKey, secret, oauthToken, credentials, accessToken,
                   now>>
    /\ UNCHANGED <<discoveryVars, responseVars, auxVars>>

\* call() sends a token request exactly when it falls back on a held helper
\* whose token is expired and refreshable.
WillRefresh ==
    /\ IsNone(oauthToken) /\ IsSome(oauth)
    /\ IsSome(Val(oauth).accessToken) /\ IsSome(Val(oauth).refreshToken)
    /\ isExpired(Val(oauth), now)

\* IaJsonClient::call (PHP). resp is what the token endpoint answers should
\* the helper refresh.
PhpCall(endpointName, params, resp) ==
    /\ port = "php"
    /\ resp \in (IF WillRefresh THEN TokenResponses ELSE {NoResponse})
    /\ LET out == PhpCallOutcome(Client, endpointName, params, resp, now)
       IN  /\ oauth' = out.oauth
           /\ last' = [called |-> TRUE, name |-> endpointName, params |-> params,
                       resp |-> resp, out |-> out, preOauth |-> oauth]
    /\ UNCHANGED <<port, spec, apiKey, secret, oauthToken, credentials, accessToken,
                   now>>
    /\ UNCHANGED <<discoveryVars, responseVars, auxVars>>

\* The answers of a register_url to the registration POST.
RegisterResponses ==
    { [ok |-> TRUE, api_key |-> Some(k), secret |-> Some(s)] :
          k \in ApiKeys, s \in Secrets }
    \cup { [ok |-> FALSE, api_key |-> None, secret |-> None],
           [ok |-> TRUE, api_key |-> Some("ak_1"), secret |-> None] }

\* IaJsonClient.register (Node): credentials are stored when the registration
\* response is a 2xx carrying api_key and secret strings.
NodeRegister(resp) ==
    /\ port = "node"
    /\ IsSome(spec.auth) /\ IsSome(Val(spec.auth).signed_key)
    /\ credentials' = IF resp.ok /\ IsSome(resp.api_key) /\ IsSome(resp.secret)
                      THEN Some([api_key |-> Val(resp.api_key),
                                 secret |-> Val(resp.secret)])
                      ELSE credentials
    /\ last' = NoCall
    /\ UNCHANGED <<port, spec, apiKey, secret, oauthToken, oauth, accessToken, now>>
    /\ UNCHANGED <<discoveryVars, responseVars, auxVars>>

\* IaJsonClient.setAccessToken (Node)
NodeSetAccessToken(t) ==
    /\ port = "node"
    /\ accessToken' = Some(t)
    /\ last' = NoCall
    /\ UNCHANGED <<port, spec, apiKey, secret, oauthToken, oauth, credentials, now>>
    /\ UNCHANGED <<discoveryVars, responseVars, auxVars>>

\* IaJsonClient.call (Node).
NodeCall(endpointName, params) ==
    /\ port = "node"
    /\ LET out == NodeCallOutcome(Client, endpointName, params, now)
       IN  last' = [called |-> TRUE, name |-> endpointName, params |-> params,
                    resp |-> NoResponse, out |-> out, preOauth |-> None]
    /\ UNCHANGED <<port, spec, apiKey, secret, oauthToken, oauth, credentials,
                   accessToken, now>>
    /\ UNCHANGED <<discoveryVars, responseVars, auxVars>>

\* ------------------------------------------------------- discovery: actions
DomainInputs ==
    {"shop.example", "https://shop.example/", "http://api.shop.example", "",
     "shop.example/v1", "shop.example.", "shop.example?lang=en", "https://"}

Pending == [status |-> "pending", data |-> GoodDoc, code |-> "", message |-> ""]

\* Discovery::fetch / discover, up to the first request.
Discover(domain) ==
    /\ dPc \in {"idle", "done"}
    /\ LET clean == NormalizeDomain(port, domain)
           invalid == IF port = "php" THEN clean = "" ELSE domain = ""
       IN  IF invalid
           THEN /\ dPc' = "done"
                /\ dDomain' = clean
                /\ dRequests' = <<>>
                /\ dResult' = IF port = "php"
                              THEN Thrown("invalid_domain", "Domain must not be empty")
                              ELSE Thrown("invalid_domain",
                                          "domain must be a non-empty string")
           ELSE /\ dPc' = "primary"
                /\ dDomain' = clean
                /\ dRequests' = <<"https://" \o clean \o DISCOVERY_PATHS[1]>>
                /\ dResult' = Pending
    /\ dInput' = domain
    /\ dResponses' = <<>>
    /\ UNCHANGED <<clientVars, responseVars, auxVars>>

\* The first location answers.
PrimaryResponse(resp) ==
    /\ dPc = "primary"
    /\ dResponses' = Append(dResponses, resp)
    /\ LET got == FetchAt(port, dRequests[1], resp)
       IN  IF got.status = "null"
           THEN /\ dPc' = "wellknown"
                /\ dRequests' = Append(dRequests,
                                       "https://" \o dDomain \o DISCOVERY_PATHS[2])
                /\ dResult' = dResult
           ELSE /\ dPc' = "done"
                /\ dRequests' = dRequests
                /\ dResult' = got
    /\ UNCHANGED <<clientVars, responseVars, auxVars, dInput, dDomain>>

\* The second location answers.
WellKnownResponse(resp) ==
    /\ dPc = "wellknown"
    /\ dResponses' = Append(dResponses, resp)
    /\ LET got == FetchAt(port, dRequests[2], resp)
       IN  dResult' = IF got.status = "null" THEN NotFoundOf(port, dDomain) ELSE got
    /\ dPc' = "done"
    /\ UNCHANGED <<clientVars, responseVars, auxVars, dInput, dDomain, dRequests>>

InitDiscovery ==
    /\ port \in Ports
    /\ spec = GoodDoc
    /\ apiKey = None
    /\ secret = None
    /\ oauthToken = None
    /\ oauth = None
    /\ credentials = None
    /\ accessToken = None
    /\ now = 0
    /\ last = NoCall
    /\ DiscoveryIdle
    /\ ResponseIdle
    /\ AuxIdle

NextDiscovery ==
    \/ \E d \in DomainInputs : Discover(d)
    \/ \E r \in Responses : PrimaryResponse(r)
    \/ \E r \in Responses : WellKnownResponse(r)

SpecDiscovery == InitDiscovery /\ [][NextDiscovery]_vars

\* ------------------------------------------------- the response: actions
\* The transport answers the request of a call().
Respond(resp) ==
    /\ handled' = [received |-> TRUE, resp |-> resp, out |-> HandleResponse(port, resp)]
    /\ UNCHANGED <<clientVars, discoveryVars, auxVars>>

InitResponse ==
    /\ port \in Ports
    /\ spec = GoodDoc
    /\ apiKey = None
    /\ secret = None
    /\ oauthToken = None
    /\ oauth = None
    /\ credentials = None
    /\ accessToken = None
    /\ now = 0
    /\ last = NoCall
    /\ DiscoveryIdle
    /\ ResponseIdle
    /\ AuxIdle

NextResponse == \E r \in CallResponses : Respond(r)

SpecResponse == InitResponse /\ [][NextResponse]_vars

\* ------------------------------------------------------- Signer: actions
VerifyClocks == {0, 100}

Timestamps == {39, 40, 100, 160, 161}

Bodies == {"", "{\"a\":\"1\"}"}

\* maxAgeSeconds as passed: None is the omitted argument.
MaxAges == {None, Some(0)}

\* Signatures a request with this timestamp and body may carry: the one
\* issued under each secret and algorithm, and one that nobody issued.
ProvidedSignatures(timestamp, body) ==
    { Signer_sign(s, timestamp, body, a) : s \in Secrets, a \in Algorithms }
    \cup {"bad"}

\* Signer::sign (PHP) and sign (Node) on the same secret, timestamp and body.
Sign(secret0, timestamp, body, algorithm) ==
    /\ sv' = [op |-> "sign", secret |-> secret0, timestamp |-> timestamp,
              body |-> body, algorithm |-> algorithm,
              signingString |-> buildSigningString(timestamp, body),
              php |-> Signer_sign(secret0, timestamp, body, algorithm),
              node |-> sign(secret0, timestamp, body)]
    /\ UNCHANGED <<clientVars, discoveryVars, responseVars, mw, reg, pk, tk, vd, ep>>

\* Signer::verify
Verify(secret0, providedSignature, timestamp, body, algorithm, maxAge) ==
    /\ LET maxAgeSeconds == IF IsSome(maxAge) THEN Val(maxAge) ELSE DefaultMaxAge
       IN  sv' = [op |-> "verify", secret |-> secret0,
                  provided |-> providedSignature, timestamp |-> timestamp,
                  body |-> body, algorithm |-> algorithm,
                  maxAgeSeconds |-> maxAgeSeconds,
                  out |-> Signer_verify(secret0, providedSignature, timestamp, body,
                                        algorithm, maxAgeSeconds, now)]
    /\ UNCHANGED <<clientVars, discoveryVars, responseVars, mw, reg, pk, tk, vd, ep>>

InitSigner ==
    /\ port = "php"
    /\ spec = GoodDoc
    /\ apiKey = None
    /\ secret = None
    /\ oauthToken = None
    /\ oauth = None
    /\ credentials = None
    /\ accessToken = None
    /\ now \in VerifyClocks
    /\ last = NoCall
    /\ DiscoveryIdle
    /\ ResponseIdle
    /\ AuxIdle

NextSigner ==
    \/ \E s \in Secrets, t \in Timestamps, b \in Bodies, a \in Algorithms :
           Sign(s, t, b, a)
    \/ \E s \in Secrets, t \in Timestamps, b \in Bodies, a \in Algorithms,
          m \in MaxAges :
           \E p \in ProvidedSignatures(t, b) : Verify(s, p, t, b, a, m)

SpecSigner == InitSigner /\ [][NextSigner]_vars

\* ------------------------------------------------- VerifyIaSignature (Laravel)
\* is_numeric on a header value: a run of digits, optionally followed by a
\* fractional part.
IsAllDigits(s) == s # "" /\ \A i \in 1..Len(s) : SubSeq(s, i, i) \in Digits

is_numeric(s) ==
    \/ IsAllDigits(s)
    \/ \E i \in 2..(Len(s) - 1) :
           /\ SubSeq(s, i, i) = "."
           /\ IsAllDigits(SubSeq(s, 1, i - 1))
           /\ IsAllDigits(SubSeq(s, i + 1, Len(s)))

\* config('iajson.verification'): header_prefix, algorithm and max_age_seconds
\* are left to their defaults, keys maps the one registered API key to its
\* secret.
DefaultHeaderPrefix == "X-IA-"

DefaultAlgorithm == "sha256"

VerificationKeys == << <<"ak_1", "sec_1">> >>

\* VerifyIaSignature::resolveSecret with the static key mapping
resolveSecret(key) ==
    IF HasKey(VerificationKeys, key) THEN Some(ValueOf(VerificationKeys, key)) ELSE None

\* VerifyIaSignature::errorResponse / the pass-through to $next
errorResponse(code, status) ==
    [status |-> status, code |-> Some(code), next |-> FALSE, attribute |-> None]

PassedOn(key) == [status |-> 200, code |-> None, next |-> TRUE, attribute |-> Some(key)]

\* $request->header($prefix . name)
HeaderOf(headers, name) ==
    IF HasKey(headers, name) THEN Some(ValueOf(headers, name)) ELSE None

\* VerifyIaSignature::handle. clock is the reading of time() inside
\* Signer::verify, later the second reading taken after a failed verification.
VerifyIaSignature_handle(headers, body, algorithm, clock, later) ==
    LET hKey       == HeaderOf(headers, DefaultHeaderPrefix \o "Key")
        signature  == HeaderOf(headers, DefaultHeaderPrefix \o "Signature")
        timestamp  == HeaderOf(headers, DefaultHeaderPrefix \o "Timestamp")
    IN  IF hKey = None \/ signature = None \/ timestamp = None
        THEN errorResponse("missing_auth_headers", 401)
        ELSE IF ~is_numeric(Val(timestamp))
        THEN errorResponse("invalid_timestamp", 401)
        ELSE LET timestampInt == PhpIntCast(Val(timestamp))
                 secret0      == resolveSecret(Val(hKey))
             IN  IF secret0 = None
                 THEN errorResponse("invalid_key", 401)
                 ELSE IF ~Signer_verify(Val(secret0), Val(signature), timestampInt,
                                        body, algorithm, DefaultMaxAge, clock).ok
                 THEN IF Abs(later - timestampInt) > DefaultMaxAge
                      THEN errorResponse("expired_timestamp", 401)
                      ELSE errorResponse("invalid_signature", 401)
                 ELSE PassedOn(Val(hKey))

\* Requests an agent or a stranger can send.
RequestKeys == {None, Some("ak_1"), Some("ak_x")}

TimestampHeaders == {None, Some("100"), Some("161"), Some("100.5"), Some("soon")}

RequestPrefixes == {DefaultHeaderPrefix, "X-Shop-"}

RequestSignatures(timestamp, body) ==
    {None} \cup
    {Some(p) : p \in ProvidedSignatures(
                   IF IsSome(timestamp) THEN PhpIntCast(Val(timestamp)) ELSE 0, body)}

Elapsed == {0, 1}

RequestHeaders(prefix, key, signature, timestamp) ==
    (IF IsSome(key) THEN << <<prefix \o "Key", Val(key)>> >> ELSE <<>>)
    \o (IF IsSome(signature) THEN << <<prefix \o "Signature", Val(signature)>> >> ELSE <<>>)
    \o (IF IsSome(timestamp) THEN << <<prefix \o "Timestamp", Val(timestamp)>> >> ELSE <<>>)

Handle(prefix, key, signature, timestamp, body, elapsed) ==
    /\ LET headers == RequestHeaders(prefix, key, signature, timestamp)
       IN  mw' = [op |-> "handle", prefix |-> prefix, key |-> key,
                  signature |-> signature, timestamp |-> timestamp,
                  body |-> body, algorithm |-> DefaultAlgorithm,
                  elapsed |-> elapsed,
                  out |-> VerifyIaSignature_handle(headers, body, DefaultAlgorithm,
                                                   now, now + elapsed)]
    /\ UNCHANGED <<clientVars, discoveryVars, responseVars, sv, reg, pk, tk, vd, ep>>

InitMiddleware == InitSigner /\ now = 100

NextMiddleware ==
    \E x \in RequestPrefixes, k \in RequestKeys, t \in TimestampHeaders,
       b \in Bodies, e \in Elapsed :
        \E s \in RequestSignatures(t, b) : Handle(x, k, s, t, b, e)

SpecMiddleware == InitMiddleware /\ [][NextMiddleware]_vars

\* ------------------------------------------------------------- registration
\* What the site's register and verify URLs answer: no answer at all, or a
\* status with a body that is a JSON object (Some) or not (None).
RegBody(api_key, secret0, error) == [api_key |-> api_key, secret |-> secret0, error |-> error]

ErrorObject == [code |-> Some("invalid_code"), message |-> Some("Verification code is wrong")]

RegBodies ==
    { None,
      Some(RegBody(Some("ak_1"), Some("sec_1"), None)),
      Some(RegBody(Some("ak_1"), None, None)),
      Some(RegBody(Some("ak_1"), Some(""), None)),
      Some(RegBody(None, None, None)),
      Some(RegBody(None, None, Some(ErrorObject))) }

RegStatuses == {200, 401}

RegAnswers ==
    { [kind |-> "transport", status |-> 0, body |-> None] }
    \cup { [kind |-> "http", status |-> st, body |-> b] :
               st \in RegStatuses, b \in RegBodies }

\* The outcome of a registration operation: the exception thrown (class ""
\* when none), whether a request went out and to which URL, the body
\* returned and whether the client's credentials were assigned.
RegFailure(class, errorCode, code, sent, url) ==
    [class |-> class, errorCode |-> errorCode, code |-> code, sent |-> sent,
     url |-> url, body |-> None, stores |-> FALSE]

RegSuccess(url, body, stores) ==
    [class |-> "", errorCode |-> None, code |-> 0, sent |-> TRUE, url |-> url,
     body |-> body, stores |-> stores]

\* $agentInfo[$field], absent members as None
FieldOf(agentInfo, field) ==
    IF HasKey(agentInfo, field) THEN Some(ValueOf(agentInfo, field)) ELSE None

\* PHP empty() on a string member
empty(v) == v = None \/ Val(v) \in {"", "0"}

RequiredFields == <<"name", "domain", "webhook_url", "contact">>

\* The first required field that is empty, in the order of the foreach.
RECURSIVE FirstEmpty(_, _)
FirstEmpty(agentInfo, fields) ==
    IF fields = <<>> THEN None
    ELSE IF empty(FieldOf(agentInfo, Head(fields))) THEN Some(Head(fields))
    ELSE FirstEmpty(agentInfo, Tail(fields))

\* $this->httpClient->request(...) throws a GuzzleException when nothing
\* answers, and, the request options carrying no 'http_errors' => false, when
\* the client's own http_errors setting is on (Guzzle's default) and the
\* status is 4xx or 5xx.
GuzzleThrows(httpErrors, ans) ==
    ans.kind = "transport" \/ (httpErrors /\ ans.status >= 400)

\* Register::register
Register_register(httpErrors, registerUrl, agentInfo, ans) ==
    IF IsSome(FirstEmpty(agentInfo, RequiredFields))
    THEN RegFailure("IaJsonException", Some("invalid_registration"), 0, FALSE, "")
    ELSE IF GuzzleThrows(httpErrors, ans)
    THEN RegFailure("IaJsonException", Some("registration_failed"), ans.status,
                    TRUE, registerUrl)
    ELSE IF ans.body = None
    THEN RegFailure("IaJsonException", Some("invalid_response"), 0, TRUE, registerUrl)
    ELSE RegSuccess(registerUrl, ans.body, FALSE)

\* IaJsonException::fromResponse
IaJsonException_fromResponse(responseBody, httpStatus, url) ==
    RegFailure("IaJsonException",
               IF IsSome(responseBody.error) THEN Val(responseBody.error).code ELSE None,
               httpStatus, TRUE, url)

\* Register::verify
Register_verify(httpErrors, verifyUrl, ans) ==
    IF GuzzleThrows(httpErrors, ans)
    THEN RegFailure("IaJsonException", Some("verification_failed"), ans.status,
                    TRUE, verifyUrl)
    ELSE IF ans.body = None
    THEN RegFailure("IaJsonException", Some("invalid_response"), 0, TRUE, verifyUrl)
    ELSE IF ans.status >= 400
    THEN IaJsonException_fromResponse(Val(ans.body), ans.status, verifyUrl)
    ELSE IF empty(Val(ans.body).api_key) \/ empty(Val(ans.body).secret)
    THEN RegFailure("IaJsonException", Some("invalid_response"), 0, TRUE, verifyUrl)
    ELSE RegSuccess(verifyUrl, ans.body, FALSE)

\* explode($sep, $s) and implode($sep, $parts)
RECURSIVE explode(_, _)
explode(sep, s) ==
    LET i == IndexFrom(s, sep, 1)
    IN  IF i = 0 THEN <<s>>
        ELSE <<SubSeq(s, 1, i - 1)>> \o explode(sep, Drop(s, i + Len(sep) - 1))

RECURSIVE implode(_, _)
implode(sep, parts) ==
    IF parts = <<>> THEN ""
    ELSE IF Len(parts) = 1 THEN parts[1]
    ELSE parts[1] \o sep \o implode(sep, Tail(parts))

\* parse_url on a URL without userinfo, query or fragment; absent components
\* are None.
parse_url(u) ==
    LET a == IndexFrom(u, "://", 1)
    IN  IF a = 0
        THEN [scheme |-> None, host |-> None, port |-> None, path |-> Some(u)]
        ELSE LET rest      == Drop(u, a + 2)
                 b         == IndexFrom(rest, "/", 1)
                 authority == IF b = 0 THEN rest ELSE SubSeq(rest, 1, b - 1)
                 c         == IndexFrom(authority, ":", 1)
             IN  [scheme |-> Some(SubSeq(u, 1, a - 1)),
                  host   |-> Some(IF c = 0 THEN authority
                                  ELSE SubSeq(authority, 1, c - 1)),
                  port   |-> IF c = 0 THEN None ELSE Some(Drop(authority, c)),
                  path   |-> IF b = 0 THEN None ELSE Some(Drop(rest, b - 1))]

\* Register::deriveVerifyUrl: err is the error code thrown, url the result.
deriveVerifyUrl(registerUrl) ==
    LET parts == parse_url(registerUrl)
    IN  IF parts.scheme = None \/ parts.host = None
        THEN [err |-> Some("invalid_url"), url |-> ""]
        ELSE LET path         == IF IsSome(parts.path) THEN Val(parts.path) ELSE "/"
                 exploded     == explode("/", rtrim(path, "/"))
                 pathSegments == SubSeq(exploded, 1, Len(exploded) - 1) \o <<"verify">>
                 port0        == IF IsSome(parts.port) THEN ":" \o Val(parts.port) ELSE ""
             IN  [err |-> None,
                  url |-> Val(parts.scheme) \o "://" \o Val(parts.host) \o port0
                          \o implode("/", pathSegments)]

\* IaJsonClient::getSignedKeyConfig / config.auth?.signed_key
SignedKeyConfig(c) ==
    IF IsSome(c.spec.auth) THEN Val(c.spec.auth).signed_key ELSE None

\* IaJsonClient::register (PHP)
IaJsonClient_register(c, httpErrors, agentInfo, ans) ==
    IF SignedKeyConfig(c) = None
    THEN RegFailure("IaJsonException", Some("signed_key_not_supported"), 0, FALSE, "")
    ELSE Register_register(httpErrors, Val(SignedKeyConfig(c)).register_url,
                           agentInfo, ans)

\* IaJsonClient::verify (PHP)
IaJsonClient_verify(c, httpErrors, verifyUrl, ans) ==
    IF SignedKeyConfig(c) = None
    THEN RegFailure("IaJsonException", Some("signed_key_not_supported"), 0, FALSE, "")
    ELSE LET derived == IF IsSome(verifyUrl) THEN [err |-> None, url |-> Val(verifyUrl)]
                        ELSE deriveVerifyUrl(Val(SignedKeyConfig(c)).register_url)
         IN  IF IsSome(derived.err)
             THEN RegFailure("IaJsonException", derived.err, 0, FALSE, "")
             ELSE LET r == Register_verify(httpErrors, derived.url, ans)
                  IN  IF r.class # "" THEN r ELSE RegSuccess(r.url, r.body, TRUE)

\* register (Node, auth/register): response.ok is a status in 200..299.
registerAgent(registerUrl, agentInfo, ans) ==
    IF ans.kind = "transport"
    THEN RegFailure("AuthenticationError", None, 401, TRUE, registerUrl)
    ELSE IF ~(ans.status >= 200 /\ ans.status <= 299)
    THEN RegFailure("AuthenticationError", None, ans.status, TRUE, registerUrl)
    ELSE IF ans.body = None
    THEN RegFailure("AuthenticationError", None, 401, TRUE, registerUrl)
    ELSE IF Val(ans.body).api_key = None \/ Val(ans.body).secret = None
    THEN RegFailure("AuthenticationError", None, 401, TRUE, registerUrl)
    ELSE RegSuccess(registerUrl, ans.body, TRUE)

\* IaJsonClient.register (Node)
NodeClient_register(c, agentInfo, ans) ==
    IF SignedKeyConfig(c) = None
    THEN RegFailure("AuthenticationError", None, 401, FALSE, "")
    ELSE registerAgent(Val(SignedKeyConfig(c)).register_url, agentInfo, ans)

\* Inputs of the handshake.
FullAgentInfo ==
    << <<"name", "Agent">>, <<"domain", "agent.example">>,
       <<"webhook_url", "https://agent.example/hook">>,
       <<"contact", "ops@agent.example">> >>

AgentInfos ==
    {FullAgentInfo}
    \cup {Without(FullAgentInfo, RequiredFields[i]) : i \in 1..Len(RequiredFields)}
    \cup {Without(FullAgentInfo, "contact") \o << <<"contact", "">> >>}

RegisterUrls ==
    {"https://shop.example/ia/register", "https://shop.example/ia/register/",
     "https://shop.example/register", "https://shop.example",
     "https://shop.example/", "https://shop.example:8443/ia/register",
     "shop.example/register"}

RegistrationDocuments ==
    { Doc(Some("1.0.0"), ShopSite, HttpsBase, AllGroups,
          Some([signed_key |-> Some([SignedKey(Some("sha256"), None)
                                         EXCEPT !.register_url = u]),
                oauth2 |-> None])) : u \in RegisterUrls }
    \cup { Doc(Some("1.0.0"), ShopSite, HttpsBase, OnlyPublic, None) }

VerifyUrls == {None, Some("https://shop.example/ia/confirm")}

Stored == [apiKey |-> apiKey, secret |-> secret, credentials |-> credentials]

\* IaJsonClient::register (PHP): nothing is assigned.
PhpRegister(agentInfo, ans) ==
    /\ port = "php"
    /\ reg' = [op |-> "register", httpErrors |-> reg.httpErrors,
               agentInfo |-> agentInfo, verifyUrl |-> None, ans |-> ans,
               pre |-> Stored, verified |-> reg.verified,
               out |-> IaJsonClient_register(Client, reg.httpErrors, agentInfo, ans)]
    /\ UNCHANGED <<clientVars, discoveryVars, responseVars, sv, mw, pk, tk, vd, ep>>

\* IaJsonClient::verify (PHP): setCredentials follows a verify that returned.
PhpVerify(verifyUrl, ans) ==
    /\ port = "php"
    /\ LET out == IaJsonClient_verify(Client, reg.httpErrors, verifyUrl, ans)
       IN  /\ reg' = [op |-> "verify", httpErrors |-> reg.httpErrors,
                      agentInfo |-> <<>>, verifyUrl |-> verifyUrl, ans |-> ans,
                      pre |-> Stored, verified |-> reg.verified \/ out.class = "",
                      out |-> out]
           /\ apiKey' = IF out.stores THEN Val(out.body).api_key ELSE apiKey
           /\ secret' = IF out.stores THEN Val(out.body).secret ELSE secret
    /\ last' = NoCall
    /\ UNCHANGED <<port, spec, oauthToken, oauth, credentials, accessToken, now>>
    /\ UNCHANGED <<discoveryVars, responseVars, sv, mw, pk, tk, vd, ep>>

\* IaJsonClient.register (Node): this.credentials = await registerAgent(...)
NodeRegisterAgent(agentInfo, ans) ==
    /\ port = "node"
    /\ LET out == NodeClient_register(Client, agentInfo, ans)
       IN  /\ reg' = [op |-> "register", httpErrors |-> reg.httpErrors,
                      agentInfo |-> agentInfo, verifyUrl |-> None, ans |-> ans,
                      pre |-> Stored, verified |-> reg.verified, out |-> out]
           /\ credentials' = IF out.stores
                             THEN Some([api_key |-> Val(Val(out.body).api_key),
                                        secret |-> Val(Val(out.body).secret)])
                             ELSE credentials
    /\ last' = NoCall
    /\ UNCHANGED <<port, spec, apiKey, secret, oauthToken, oauth, accessToken, now>>
    /\ UNCHANGED <<discoveryVars, responseVars, sv, mw, pk, tk, vd, ep>>

\* A client just constructed over a manifest; the PHP client's Guzzle
\* instance is the default one (http_errors on) or an injected one with
\* http_errors off, fetch never throws on a status.
InitRegistration ==
    /\ port \in Ports
    /\ spec \in RegistrationDocuments
    /\ apiKey = None
    /\ secret = None
    /\ oauthToken = None
    /\ oauth = None
    /\ credentials = None
    /\ accessToken = None
    /\ now = 0
    /\ last = NoCall
    /\ DiscoveryIdle
    /\ ResponseIdle
    /\ sv = Idle /\ mw = Idle /\ pk = Idle
    /\ tk = Idle /\ vd = Idle /\ ep = Idle
    /\ reg \in {[op |-> "none", httpErrors |-> h, verified |-> FALSE] :
                    h \in IF port = "php" THEN BOOLEAN ELSE {FALSE}}

NextRegistration ==
    \/ \E i \in AgentInfos, a \in RegAnswers : PhpRegister(i, a)
    \/ \E u \in VerifyUrls, a \in RegAnswers : PhpVerify(u, a)
    \/ \E i \in AgentInfos, a \in RegAnswers : NodeRegisterAgent(i, a)

SpecRegistration == InitRegistration /\ [][NextRegistration]_vars

\* ------------------------------------------------------ authorization URLs
\* base64_encode of a sequence of bytes.
Base64Alphabet ==
    "ABCDEFGHIJKLMNOPQRSTUVWXYZabcdefghijklmnopqrstuvwxyz0123456789+/"

Base64Char(n) == SubSeq(Base64Alphabet, n + 1, n + 1)

RECURSIVE base64_encode(_)
base64_encode(bytes) ==
    CASE Len(bytes) = 0 -> ""
      [] Len(bytes) = 1 ->
             Base64Char(bytes[1] \div 4) \o Base64Char((bytes[1] % 4) * 16) \o "=="
      [] Len(bytes) = 2 ->
             Base64Char(bytes[1] \div 4)
             \o Base64Char((bytes[1] % 4) * 16 + bytes[2] \div 16)
             \o Base64Char((bytes[2] % 16) * 4) \o "="
      [] OTHER ->
             Base64Char(bytes[1] \div 4)
             \o Base64Char((bytes[1] % 4) * 16 + bytes[2] \div 16)
             \o Base64Char((bytes[2] % 16) * 4 + bytes[3] \div 64)
             \o Base64Char(bytes[3] % 64)
             \o base64_encode(SubSeq(bytes, 4, Len(bytes)))

\* strtr($s, '+/', '-_')
RECURSIVE strtr(_)
strtr(s) ==
    IF s = "" THEN ""
    ELSE LET c == SubSeq(s, 1, 1)
         IN  (CASE c = "+" -> "-" [] c = "/" -> "_" [] OTHER -> c) \o strtr(Drop(s, 1))

\* bin2hex of a sequence of bytes
HexDigits == "0123456789abcdef"

RECURSIVE bin2hex(_)
bin2hex(bytes) ==
    IF bytes = <<>> THEN ""
    ELSE SubSeq(HexDigits, (bytes[1] \div 16) + 1, (bytes[1] \div 16) + 1)
         \o SubSeq(HexDigits, (bytes[1] % 16) + 1, (bytes[1] % 16) + 1)
         \o bin2hex(Tail(bytes))

\* random_bytes($n): one of the byte strings the generator can return.
RandomFills == {0, 251, 255}

random_bytes(n) ==
    {[i \in 1..n |-> f] : f \in RandomFills} \cup {[i \in 1..n |-> (i * 37) % 256]}

\* OAuth::generateCodeVerifier on the 32 random bytes drawn
generateCodeVerifier(bytes) == rtrim(strtr(base64_encode(bytes)), "=")

\* hash('sha256', $data, true) and the base64 of a digest, kept symbolic: the
\* text names the function and its argument.
hash_sha256(data) == "sha256-" \o data

Base64OfDigest(digest) == "b64-" \o digest

\* OAuth::generateCodeChallenge
generateCodeChallenge(codeVerifier) ==
    rtrim(strtr(Base64OfDigest(hash_sha256(codeVerifier))), "=")

\* urlencode (http_build_query's default encoding) and the serialisation of
\* URLSearchParams agree on the characters of the model's values.
QueryEncodeChar(c) ==
    CASE c = " " -> "+"
      [] c = ":" -> "%3A"
      [] c = "/" -> "%2F"
      [] c = "?" -> "%3F"
      [] OTHER   -> c

RECURSIVE QueryEncode(_)
QueryEncode(s) ==
    IF s = "" THEN "" ELSE QueryEncodeChar(SubSeq(s, 1, 1)) \o QueryEncode(Drop(s, 1))

QueryString(ps) ==
    JoinPairs([i \in 1..Len(ps) |-> <<QueryEncode(ps[i][1]), QueryEncode(ps[i][2])>>],
              "", "=", "", "&")

\* auth.oauth2 of a manifest with its pkce_required member
OAuth2ConfigWith(pkce_required) ==
    [authorization_url |-> OAuth2Config.authorization_url,
     token_url |-> OAuth2Config.token_url, pkce_required |-> pkce_required]

OAuthDocuments ==
    { Doc(Some("1.0.0"), ShopSite, HttpsBase, AllGroups,
          Some([signed_key |-> None, oauth2 |-> Some(OAuth2ConfigWith(p))])) :
          p \in {None, Some(TRUE), Some(FALSE)} }

\* $oauthConfig['pkce_required'] ?? false, as IaJsonClient::getOAuth passes it
\* to the OAuth helper
PkceRequired(c) ==
    LET o == Val(Val(c.spec.auth).oauth2)
    IN  IF IsSome(o.pkce_required) THEN Val(o.pkce_required) ELSE FALSE

\* OAuth::getAuthorizationUrl: stateBytes and verifierBytes are what
\* random_bytes returns when it is called; $state ?: ... takes the generated
\* token for every falsy $state, the strings "" and "0".
OAuth_getAuthorizationUrl(authorizationUrl, clientId, pkceRequired, redirectUri, scopes, state, stateBytes, verifierBytes) ==
    LET base   == << <<"response_type", "code">>, <<"client_id", clientId>>,
                     <<"redirect_uri", redirectUri>>,
                     <<"state", IF state \notin {"", "0"} THEN state
                                ELSE bin2hex(stateBytes)>> >>
        scoped == IF scopes # <<>> THEN base \o << <<"scope", implode(" ", scopes)>> >>
                  ELSE base
        codeVerifier == generateCodeVerifier(verifierBytes)
        params == IF pkceRequired
                  THEN scoped \o << <<"code_challenge", generateCodeChallenge(codeVerifier)>>,
                                    <<"code_challenge_method", "S256">> >>
                  ELSE scoped
    IN  [url |-> authorizationUrl \o "?" \o QueryString(params),
         code_verifier |-> IF pkceRequired THEN Some(codeVerifier) ELSE None]

\* getAuthorizationUrl (Node, auth/oauth2)
getAuthorizationUrl(config, clientId, redirectUri, scopes) ==
    [url |-> config.authorization_url \o "?"
             \o QueryString(<< <<"response_type", "code">>, <<"client_id", clientId>>,
                               <<"redirect_uri", redirectUri>>,
                               <<"scope", implode(" ", scopes)>> >>),
     code_verifier |-> None]

ClientIds == {"cid"}

RedirectUris == {"https://agent.example/cb", "https://agent.example/oauth cb"}

ScopeLists == {<<>>, <<"cart:read", "cart:write">>}

States == {"", "st1", "0"}

\* $client->getOAuth($clientId)->getAuthorizationUrl($redirectUri, $scopes, $state)
PhpAuthorizationUrl(clientId, redirectUri, scopes, state, stateBytes, verifierBytes) ==
    /\ port = "php"
    /\ oauth' = IF IsNone(oauth) THEN Some(NewOAuth) ELSE oauth
    /\ pk' = [op |-> "authorize", clientId |-> clientId, redirectUri |-> redirectUri,
              scopes |-> scopes, state |-> state,
              out |-> OAuth_getAuthorizationUrl(
                          Val(Val(spec.auth).oauth2).authorization_url, clientId,
                          PkceRequired(Client), redirectUri, scopes, state,
                          stateBytes, verifierBytes)]
    /\ last' = NoCall
    /\ UNCHANGED <<port, spec, apiKey, secret, oauthToken, credentials, accessToken,
                   now>>
    /\ UNCHANGED <<discoveryVars, responseVars, sv, mw, reg, tk, vd, ep>>

\* getAuthorizationUrl(config.auth.oauth2, clientId, redirectUri, scopes)
NodeAuthorizationUrl(clientId, redirectUri, scopes) ==
    /\ port = "node"
    /\ pk' = [op |-> "authorize", clientId |-> clientId, redirectUri |-> redirectUri,
              scopes |-> scopes, state |-> "",
              out |-> getAuthorizationUrl(Val(Val(spec.auth).oauth2), clientId,
                                          redirectUri, scopes)]
    /\ UNCHANGED <<clientVars, discoveryVars, responseVars, sv, mw, reg, tk, vd, ep>>

InitOAuth ==
    /\ port \in Ports
    /\ spec \in OAuthDocuments
    /\ apiKey = None
    /\ secret = None
    /\ oauthToken = None
    /\ oauth = None
    /\ credentials = None
    /\ accessToken = None
    /\ now = 0
    /\ last = NoCall
    /\ DiscoveryIdle
    /\ ResponseIdle
    /\ AuxIdle

NextOAuth ==
    \/ \E c \in ClientIds, r \in RedirectUris, s \in ScopeLists, st \in States :
           \E sb \in random_bytes(16), vb \in random_bytes(32) :
               PhpAuthorizationUrl(c, r, s, st, sb, vb)
    \/ \E c \in ClientIds, r \in RedirectUris, s \in ScopeLists :
           NodeAuthorizationUrl(c, r, s)

SpecOAuth == InitOAuth /\ [][NextOAuth]_vars

\* ------------------------------------------------------ OAuth: token calls
\* The clock of the token model runs to MaxTokenClock.
MaxTokenClock == 2

\* expires_in values around the 30 second buffer.
ExpiresIns == {None, Some(30), Some(31)}

\* The answers of the token endpoint: no answer, a body without an
\* access_token, and token responses with and without refresh_token and
\* expires_in.
TokenAnswers ==
    { [kind |-> "transport", access_token |-> "", refresh_token |-> None,
       expires_in |-> None],
      [kind |-> "ok", access_token |-> "", refresh_token |-> None,
       expires_in |-> None] }
    \cup { [kind |-> "ok", access_token |-> "t1", refresh_token |-> r,
            expires_in |-> e] : r \in {None, Some("r1")}, e \in ExpiresIns }

Callers == {1, 2}

TokenOps == {"getAccessToken", "refreshAccessToken", "exchangeCode", "clientCredentials"}

NotCalling == [pc |-> "idle", kind |-> ""]

Waiting(kind) == [pc |-> "waiting", kind |-> kind]

\* What the step just taken did: the caller, the operation, the token cell
\* before the step, the token requests the step sent, the answer it read,
\* and, when the operation ended with it, the error thrown or token returned.
TokenStep(caller, step, kind, pre, sent, resp, ended, err, token) ==
    [caller |-> caller, step |-> step, kind |-> kind, pre |-> pre, sent |-> sent,
     resp |-> resp, ended |-> ended, err |-> err, token |-> token]

NoStep == TokenStep(0, "none", "", NewOAuth, 0, NoResponse, FALSE, "", None)

\* Variant: getAccessToken refreshes every expired token, refresh token or not.
TokenOpStart_RefreshWhenExpired(o, kind, pkceRequired, codeVerifier, clock) ==
    CASE kind = "exchangeCode" ->
             IF pkceRequired /\ codeVerifier = None
             THEN [err |-> "pkce_required", sends |-> FALSE]
             ELSE [err |-> "", sends |-> TRUE]
      [] kind = "clientCredentials" -> [err |-> "", sends |-> TRUE]
      [] kind = "refreshAccessToken" ->
             IF IsNone(o.refreshToken)
             THEN [err |-> "missing_oauth_token", sends |-> FALSE]
             ELSE [err |-> "", sends |-> TRUE]
      [] kind = "getAccessToken" ->
             IF IsNone(o.accessToken)
             THEN [err |-> "missing_oauth_token", sends |-> FALSE]
             ELSE [err |-> "", sends |-> isExpired(o, clock)]

\* The start of a token operation, up to the point where it either ends
\* without a request or has sent its token request: the error thrown before
\* any request ("" when none) and whether a request goes out.
\* OAuth::exchangeCode, clientCredentials, refreshAccessToken, getAccessToken
TokenOpStart(o, kind, pkceRequired, codeVerifier, clock) ==
    CASE kind = "exchangeCode" ->
             IF pkceRequired /\ codeVerifier = None
             THEN [err |-> "pkce_required", sends |-> FALSE]
             ELSE [err |-> "", sends |-> TRUE]
      [] kind = "clientCredentials" -> [err |-> "", sends |-> TRUE]
      [] kind = "refreshAccessToken" ->
             IF IsNone(o.refreshToken)
             THEN [err |-> "missing_oauth_token", sends |-> FALSE]
             ELSE [err |-> "", sends |-> TRUE]
      [] kind = "getAccessToken" ->
             IF IsNone(o.accessToken)
             THEN [err |-> "missing_oauth_token", sends |-> FALSE]
             ELSE [err |-> "", sends |-> isExpired(o, clock) /\ IsSome(o.refreshToken)]

\* A caller enters a token operation of the shared helper. The helper keeps
\* no record of a request under way, so nothing stops a second caller from
\* entering while the first one's request is out.
StartTokenOp(c, kind, codeVerifier) ==
    /\ IsSome(oauth)
    /\ tk.calls[c].pc = "idle"
    /\ LET o == Val(oauth)
           s == TokenOpStart(o, kind, PkceRequired(Client), codeVerifier, now)
       IN  tk' = [calls |-> [tk.calls EXCEPT ![c] = IF s.sends THEN Waiting(kind)
                                                    ELSE NotCalling],
                  last |-> TokenStep(c, "start", kind, o, IF s.sends THEN 1 ELSE 0,
                                     NoResponse, ~s.sends, s.err,
                                     IF ~s.sends /\ s.err = "" THEN o.accessToken
                                     ELSE None)]
    /\ UNCHANGED <<clientVars, discoveryVars, responseVars, sv, mw, reg, pk, vd, ep>>

\* The token endpoint answers the caller's request: requestToken stores the
\* tokens or throws, and the operation ends.
TokenResponse(c, resp) ==
    /\ IsSome(oauth)
    /\ tk.calls[c].pc = "waiting"
    /\ LET o == Val(oauth)
           r == requestToken(o, resp, now)
       IN  /\ oauth' = Some(r.oauth)
           /\ tk' = [calls |-> [tk.calls EXCEPT ![c] = NotCalling],
                     last |-> TokenStep(c, "response", tk.calls[c].kind, o, 0, resp,
                                        TRUE, r.err,
                                        IF r.err = "" THEN r.oauth.accessToken
                                        ELSE None)]
    /\ UNCHANGED <<port, spec, apiKey, secret, oauthToken, credentials, accessToken,
                   now, last>>
    /\ UNCHANGED <<discoveryVars, responseVars, sv, mw, reg, pk, vd, ep>>

\* OAuth::setTokens
SetTokens(r, expiresIn) ==
    /\ IsSome(oauth)
    /\ oauth' = Some([accessToken |-> Some("a0"), refreshToken |-> r,
                      expiresAt |-> IF IsSome(expiresIn)
                                    THEN Some(now + Val(expiresIn)) ELSE None])
    /\ tk' = [calls |-> tk.calls,
              last |-> TokenStep(0, "setTokens", "", Val(oauth), 0, NoResponse,
                                 FALSE, "", None)]
    /\ UNCHANGED <<port, spec, apiKey, secret, oauthToken, credentials, accessToken,
                   now, last>>
    /\ UNCHANGED <<discoveryVars, responseVars, sv, mw, reg, pk, vd, ep>>

TokenTick ==
    /\ now < MaxTokenClock
    /\ now' = now + 1
    /\ tk' = [calls |-> tk.calls,
              last |-> TokenStep(0, "tick", "", Val(oauth), 0, NoResponse, FALSE,
                                 "", None)]
    /\ UNCHANGED <<port, spec, apiKey, secret, oauthToken, oauth, credentials,
                   accessToken, last>>
    /\ UNCHANGED <<discoveryVars, responseVars, sv, mw, reg, pk, vd, ep>>

\* Manifests whose auth.oauth2 requires PKCE and leaves pkce_required out.
TokenDocuments == {d \in OAuthDocuments : Val(Val(d.auth).oauth2).pkce_required # Some(FALSE)}

\* A PHP client whose OAuth helper was just obtained with getOAuth.
InitToken ==
    /\ port = "php"
    /\ spec \in TokenDocuments
    /\ apiKey = None
    /\ secret = None
    /\ oauthToken = None
    /\ oauth = Some(NewOAuth)
    /\ credentials = None
    /\ accessToken = None
    /\ now = 0
    /\ last = NoCall
    /\ DiscoveryIdle
    /\ ResponseIdle
    /\ sv = Idle /\ mw = Idle /\ reg = Idle /\ pk = Idle
    /\ tk = [calls |-> [c \in Callers |-> NotCalling], last |-> NoStep]
    /\ vd = Idle /\ ep = Idle

NextToken ==
    \/ \E c \in Callers, k \in TokenOps, v \in {None, Some("verifier")} :
           StartTokenOp(c, k, v)
    \/ \E c \in Callers, r \in TokenAnswers : TokenResponse(c, r)
    \/ \E r \in {None, Some("r0")}, e \in ExpiresIns : SetTokens(r, e)
    \/ TokenTick

SpecToken == InitToken /\ [][NextToken]_vars

\* ---------------------------------------------------------------- validator
\* A finding of the validator.
Finding(path, severity) == [path |-> path, severity |-> severity]

\* An endpoint as the semantic checks read it.
VEndpoint(scopes, rate_limit) == [scopes |-> scopes, rate_limit |-> rate_limit]

\* Object.keys(group).length > 0 on a member that may be absent
NonEmptyGroup(group) == IsSome(group) /\ Len(Val(group)) > 0

\* semantic.ts checkAuthRequirements
checkAuthRequirements(data) ==
    IF data.api = None THEN <<>>
    ELSE LET api             == Val(data.api)
             hasProtected    == NonEmptyGroup(api.protected)
             hasUserRequired == NonEmptyGroup(api.user_required)
         IN  (IF hasProtected /\ data.auth = None
              THEN <<Finding("/api/protected", "warning")>> ELSE <<>>)
             \o (IF hasUserRequired /\ data.auth = None
                 THEN <<Finding("/api/user_required", "warning")>> ELSE <<>>)
             \o (IF hasUserRequired /\ IsSome(data.auth) /\ Val(data.auth).oauth2 = None
                 THEN <<Finding("/auth", "warning")>> ELSE <<>>)

\* semantic.ts checkSignatureConsistency
checkSignatureConsistency(data) ==
    IF /\ IsSome(data.auth) /\ Val(data.auth).signed_key
       /\ IsSome(data.security) /\ ~Val(data.security).verify_signature
    THEN <<Finding("/security/verify_signature", "warning")>> ELSE <<>>

\* The findings of one user_required endpoint's scopes, in order.
RECURSIVE ScopeFindings(_, _, _)
ScopeFindings(name, scopes, definedScopes) ==
    IF scopes = <<>> THEN <<>>
    ELSE (IF Head(scopes) \notin definedScopes
          THEN <<Finding("/api/user_required/" \o name \o "/scopes", "error")>>
          ELSE <<>>)
         \o ScopeFindings(name, Tail(scopes), definedScopes)

RECURSIVE EndpointScopeFindings(_, _)
EndpointScopeFindings(endpoints, definedScopes) ==
    IF endpoints = <<>> THEN <<>>
    ELSE (IF IsSome(Head(endpoints)[2].scopes)
          THEN ScopeFindings(Head(endpoints)[1], Val(Head(endpoints)[2].scopes),
                             definedScopes)
          ELSE <<>>)
         \o EndpointScopeFindings(Tail(endpoints), definedScopes)

\* semantic.ts checkOAuthScopes
checkOAuthScopes(data) ==
    IF data.auth = None \/ data.api = None THEN <<>>
    ELSE IF Val(data.auth).oauth2 = None THEN <<>>
    ELSE LET userRequired == IF IsSome(Val(data.api).user_required)
                             THEN Val(Val(data.api).user_required) ELSE <<>>
         IN  EndpointScopeFindings(userRequired, Val(Val(data.auth).oauth2))

\* /^\d+\/(second|minute|hour|day)$/
rateLimitPattern(rl) ==
    \E i \in 2..Len(rl) :
        /\ SubSeq(rl, i, i) = "/"
        /\ IsAllDigits(SubSeq(rl, 1, i - 1))
        /\ SubSeq(rl, i + 1, Len(rl)) \in {"second", "minute", "hour", "day"}

RECURSIVE EndpointRateFindings(_, _)
EndpointRateFindings(level, endpoints) ==
    IF endpoints = <<>> THEN <<>>
    ELSE LET rl == Head(endpoints)[2].rate_limit
         IN  (IF IsSome(rl) /\ Val(rl) # "" /\ ~rateLimitPattern(Val(rl))
              THEN <<Finding("/api/" \o level \o "/" \o Head(endpoints)[1]
                             \o "/rate_limit", "error")>>
              ELSE <<>>)
             \o EndpointRateFindings(level, Tail(endpoints))

GroupEntries(group) == IF IsSome(group) THEN Val(group) ELSE <<>>

\* semantic.ts checkRateLimits
checkRateLimits(data) ==
    (IF /\ IsSome(data.security) /\ IsSome(Val(data.security).rate_limit)
        /\ Val(Val(data.security).rate_limit) # ""
        /\ ~rateLimitPattern(Val(Val(data.security).rate_limit))
     THEN <<Finding("/security/rate_limit", "error")>> ELSE <<>>)
    \o (IF data.api = None THEN <<>>
        ELSE EndpointRateFindings("public", GroupEntries(Val(data.api).public))
             \o EndpointRateFindings("protected", GroupEntries(Val(data.api).protected))
             \o EndpointRateFindings("user_required",
                                     GroupEntries(Val(data.api).user_required)))

\* semantic.ts checkMetadataDates; the dates are days since an epoch.
checkMetadataDates(data) ==
    IF data.metadata = None THEN <<>>
    ELSE IF Val(data.metadata).updated < Val(data.metadata).created
    THEN <<Finding("/metadata/updated", "warning")>> ELSE <<>>

\* semantic.ts getAllEndpointNames
getAllEndpointNames(api) ==
    LET all == GroupEntries(api.public) \o GroupEntries(api.protected)
               \o GroupEntries(api.user_required)
    IN  {all[i][1] : i \in 1..Len(all)}

\* semantic.ts checkCapabilitiesConsistency
checkCapabilitiesConsistency(data) ==
    IF data.capabilities = None \/ data.api = None THEN <<>>
    ELSE (IF /\ Val(data.capabilities).checkout
             /\ ~\E name \in getAllEndpointNames(Val(data.api)) :
                    \/ Contains(name, "checkout") \/ Contains(name, "order")
                    \/ Contains(name, "cart")
          THEN <<Finding("/capabilities/checkout", "warning")>> ELSE <<>>)
         \o (IF Val(data.capabilities).webhooks /\ ~data.webhooks
             THEN <<Finding("/capabilities/webhooks", "warning")>> ELSE <<>>)

\* semantic.ts runSemanticValidation
runSemanticValidation(data) ==
    checkAuthRequirements(data) \o checkSignatureConsistency(data)
    \o checkOAuthScopes(data) \o checkRateLimits(data) \o checkMetadataDates(data)
    \o checkCapabilitiesConsistency(data)

WithSeverity(findings, severity) == SelectSeq(findings, LAMBDA f : f.severity = severity)

ValidationResult(valid, errors, warnings) ==
    [valid |-> valid, errors |-> errors, warnings |-> warnings,
     schema_version |-> "1.0.0"]

\* Variant: a warning makes the document invalid too.
validate_WarningsInvalidate(isObject, data, ajvErrors) ==
    IF ~isObject
    THEN ValidationResult(FALSE, <<Finding("/", "error")>>, <<>>)
    ELSE LET schemaValid == ajvErrors = <<>>
             semantic    == IF schemaValid THEN runSemanticValidation(data) ELSE <<>>
             errors      == ajvErrors \o WithSeverity(semantic, "error")
             warnings    == WithSeverity(semantic, "warning")
         IN  ValidationResult(errors = <<>> /\ warnings = <<>>, errors, warnings)

\* validator validate(data). isObject is the outcome of the typeof test;
\* ajvErrors are the errors of the compiled JSON schema on data, empty when
\* the schema accepts it.
validate(isObject, data, ajvErrors) ==
    IF ~isObject
    THEN ValidationResult(FALSE, <<Finding("/", "error")>>, <<>>)
    ELSE LET schemaValid == ajvErrors = <<>>
             semantic    == IF schemaValid THEN runSemanticValidation(data) ELSE <<>>
             errors      == ajvErrors \o WithSeverity(semantic, "error")
             warnings    == WithSeverity(semantic, "warning")
         IN  ValidationResult(errors = <<>>, errors, warnings)

\* Documents handed to the validator.
VProtected == {None, Some(<<>>), Some(<< <<"get_item", VEndpoint(None, None)>> >>)}

VUserRequired ==
    { None,
      Some(<< <<"my_orders", VEndpoint(Some(<<"orders:read">>), None)>> >>),
      Some(<< <<"pay", VEndpoint(Some(<<"orders:read", "orders:write">>), Some("fast"))>> >>),
      Some(<< <<"profile", VEndpoint(None, Some("10/minute"))>> >>) }

VAuth ==
    { None,
      Some([signed_key |-> TRUE, oauth2 |-> None]),
      Some([signed_key |-> FALSE, oauth2 |-> Some({"orders:read"})]) }

VSecurity ==
    { None,
      Some([verify_signature |-> FALSE, rate_limit |-> Some("1000/hour")]),
      Some([verify_signature |-> TRUE, rate_limit |-> Some("1000")]) }

VMetadata == {None, Some([created |-> 2, updated |-> 1])}

VCapabilities == {None, Some([checkout |-> TRUE, webhooks |-> TRUE])}

VDocuments ==
    { [api |-> Some([public |-> None, protected |-> p, user_required |-> u]),
       auth |-> a, security |-> s, metadata |-> m, capabilities |-> c,
       webhooks |-> FALSE] :
          p \in VProtected, u \in VUserRequired, a \in VAuth, s \in VSecurity,
          m \in VMetadata, c \in VCapabilities }

AjvVerdicts == {<<>>, <<Finding("/version", "error")>>}

\* validate is applied to the document drawn.
RunValidate ==
    /\ vd.op = "input"
    /\ vd' = [op |-> "validated", isObject |-> vd.isObject, data |-> vd.data,
              ajvErrors |-> vd.ajvErrors,
              out |-> validate(vd.isObject, vd.data, vd.ajvErrors)]
    /\ UNCHANGED <<clientVars, discoveryVars, responseVars, sv, mw, reg, pk, tk, ep>>

InitValidator ==
    /\ port = "node"
    /\ spec = GoodDoc
    /\ apiKey = None
    /\ secret = None
    /\ oauthToken = None
    /\ oauth = None
    /\ credentials = None
    /\ accessToken = None
    /\ now = 0
    /\ last = NoCall
    /\ DiscoveryIdle
    /\ ResponseIdle
    /\ sv = Idle /\ mw = Idle /\ reg = Idle /\ pk = Idle /\ tk = Idle /\ ep = Idle
    /\ \E o \in BOOLEAN, d \in VDocuments, e \in AjvVerdicts :
           /\ (~o => (d = CHOOSE x \in VDocuments : TRUE) /\ e = <<>>)
           /\ vd = [op |-> "input", isObject |-> o, data |-> d, ajvErrors |-> e]

NextValidator == RunValidate

SpecValidator == InitValidator /\ [][NextValidator]_vars

\* ------------------------------------------------------ PHP: getEndpoints
\* $result[$name] = $value on an ordered PHP array: a key already present
\* keeps its position and takes the new value.
ArraySet(ps, k, v) ==
    IF HasKey(ps, k)
    THEN [i \in 1..Len(ps) |-> IF ps[i][1] = k THEN <<k, v>> ELSE ps[i]]
    ELSE Append(ps, <<k, v>>)

\* foreach ($endpoints as $name => $endpoint)
\*     $result[$name] = array_merge($endpoint, ['_level' => $level]);
RECURSIVE AddLevelEntries(_, _, _)
AddLevelEntries(result, entries, level) ==
    IF entries = <<>> THEN result
    ELSE AddLevelEntries(ArraySet(result, Head(entries)[1],
                                  [endpoint |-> Head(entries)[2], level |-> level]),
                         Tail(entries), level)

\* $api[$lvl] ?? []
EntriesOf(api, level) ==
    IF IsSome(GroupOf(api, level)) THEN Val(GroupOf(api, level)) ELSE <<>>

\* IaJsonClient::getEndpoints: level None is the call with no filter.
getEndpoints(manifest, level) ==
    LET api == Val(manifest.api)
    IN  IF IsSome(level)
        THEN IF \A i \in 1..Len(Levels) : Levels[i] # Val(level)
             THEN [err |-> "invalid_level", result |-> <<>>]
             ELSE [err |-> "",
                   result |-> AddLevelEntries(<<>>, EntriesOf(api, Val(level)),
                                              Val(level))]
        ELSE [err |-> "",
              result |-> AddLevelEntries(
                             AddLevelEntries(
                                 AddLevelEntries(<<>>, EntriesOf(api, Levels[1]),
                                                 Levels[1]),
                                 EntriesOf(api, Levels[2]), Levels[2]),
                             EntriesOf(api, Levels[3]), Levels[3])]

\* Manifests whose groups are absent, empty or filled; "dup" is a name of
\* both PublicGroup and UserRequiredGroup.
EndpointDocuments ==
    { Doc(Some("1.0.0"), ShopSite, HttpsBase,
          [public |-> p, protected |-> q, user_required |-> u], AuthSha256) :
          p \in {None, Some(<<>>), Some(PublicGroup)},
          q \in {None, Some(<<>>), Some(ProtectedGroup)},
          u \in {None, Some(<<>>), Some(UserRequiredGroup)} }

LevelFilters == {None, Some("public"), Some("protected"), Some("user_required"), Some("admin")}

\* $client->getEndpoints($level)
GetEndpoints(level) ==
    /\ ep' = [op |-> "getEndpoints", level |-> level, out |-> getEndpoints(spec, level)]
    /\ UNCHANGED <<clientVars, discoveryVars, responseVars, sv, mw, reg, pk, tk, vd>>

InitEndpoints ==
    /\ port = "php"
    /\ spec \in {d \in EndpointDocuments : Validate("php", d) = ""}
    /\ apiKey = None
    /\ secret = None
    /\ oauthToken = None
    /\ oauth = None
    /\ credentials = None
    /\ accessToken = None
    /\ now = 0
    /\ last = NoCall
    /\ DiscoveryIdle
    /\ ResponseIdle
    /\ sv = Idle /\ mw = Idle /\ reg = Idle /\ pk = Idle /\ tk = Idle /\ vd = Idle
    /\ ep = Idle

NextEndpoints == \E level \in LevelFilters : GetEndpoints(level)

SpecEndpoints == InitEndpoints /\ [][NextEndpoints]_vars

Next ==
    \/ Tick
    \/ \E k \in ApiKeys, s \in Secrets : PhpSetCredentials(k, s)
    \/ \E t \in Tokens : PhpSetOAuthToken(t)
    \/ PhpGetOAuth
    \/ \E a \in {"otok"}, r \in {None, Some("rtok")}, e \in {None, Some(0)} :
           PhpSetTokens(a, r, e)
    \/ \E n \in EndpointNames, p \in ParamChoices,
          r \in TokenResponses \cup {NoResponse} : PhpCall(n, p, r)
    \/ \E r \in RegisterResponses : NodeRegister(r)
    \/ \E t \in Tokens : NodeSetAccessToken(t)
    \/ \E n \in EndpointNames, p \in ParamChoices : NodeCall(n, p)

Spec == Init /\ [][Next]_vars

\* ------------------------------------------------- what a call() is judged on
Sent == last.called /\ IsSome(last.out.request)

Req == Val(last.out.request)

Resolved == last.called /\ IsSome(last.out.level)

Level == Val(last.out.level)

\* The key credential the client held when it made the call.
HoldsKeyCredential ==
    IF port = "php" THEN IsSome(apiKey) /\ IsSome(secret) ELSE IsSome(credentials)

HeldApiKey == IF port = "php" THEN Val(apiKey) ELSE Val(credentials).api_key

HeldSecret == IF port = "php" THEN Val(secret) ELSE Val(credentials).secret

\* The bearer token call() had available: the one set on the client, else
\* the one of the held helper (after the refresh call() may have made).
BearerAvailable ==
    IF port = "php"
    THEN IsSome(oauthToken) \/ (IsSome(oauth) /\ IsSome(Val(oauth).accessToken))
    ELSE Truthy(accessToken)

AvailableBearer ==
    IF port = "php"
    THEN (IF IsSome(oauthToken) THEN Val(oauthToken) ELSE Val(Val(oauth).accessToken))
    ELSE Val(accessToken)

\* auth.signed_key of the manifest, with the documented defaults.
DeclaredPrefix ==
    IF IsSome(spec.auth) /\ IsSome(Val(spec.auth).signed_key)
       /\ IsSome(Val(Val(spec.auth).signed_key).header_prefix)
    THEN Val(Val(Val(spec.auth).signed_key).header_prefix) ELSE "X-IA-"

DeclaredAlgorithm ==
    IF IsSome(spec.auth) /\ IsSome(Val(spec.auth).signed_key)
       /\ IsSome(Val(Val(spec.auth).signed_key).algorithm)
    THEN Val(Val(Val(spec.auth).signed_key).algorithm) ELSE "sha256"

KeyHeader == DeclaredPrefix \o "Key"

SignatureHeader == DeclaredPrefix \o "Signature"

TimestampHeader == DeclaredPrefix \o "Timestamp"

SignedHeaderNames == {KeyHeader, SignatureHeader, TimestampHeader}

\* Every signed-key header name of any prefix the model's manifests declare.
AnySignedHeaderNames ==
    {p \o n : p \in {"X-IA-", "X-Shop-"}, n \in {"Key", "Signature", "Timestamp"}}

PlainHeaderNames == {"Accept", "User-Agent", "Content-Type"}

AuthenticationErrors ==
    {"missing_credentials", "missing_oauth_token", "authentication_error"}

\* Failures raised while the request is built, before authentication.
LocalValidationErrors == {"missing_parameter"}

\* The body string that is sent; the empty string when no body is sent.
SentBody == IF IsSome(Req.body) THEN Val(Req.body) ELSE ""

\* ------------------------------------------------------------------- claims

\* C1: a call() that resolves to protected or user_required and holds no key
\* credential fails with an authentication error (or earlier, on a local
\* validation error) and sends nothing; every request sent for such an
\* operation carries {prefix}Key, {prefix}Signature and {prefix}Timestamp.
C1_KeyCredentialRequired ==
    (Resolved /\ Level \in {"protected", "user_required"}) =>
        /\ ~HoldsKeyCredential =>
               /\ ~Sent
               /\ last.out.err \in AuthenticationErrors \cup LocalValidationErrors
        /\ Sent => SignedHeaderNames \subseteq DOMAIN Req.headers

\* C2: a call() that resolves to user_required and has no bearer token
\* available fails with an authentication error before any request to the
\* endpoint; every request sent for a user_required operation carries
\* Authorization: Bearer {token} and the signed-key headers.
C2_BearerRequired ==
    (Resolved /\ Level = "user_required") =>
        /\ ~BearerAvailable =>
               /\ ~Sent
               /\ last.out.err \in AuthenticationErrors \cup LocalValidationErrors
        /\ Sent =>
               /\ "Authorization" \in DOMAIN Req.headers
               /\ Req.headers["Authorization"] = "Bearer " \o AvailableBearer
               /\ SignedHeaderNames \subseteq DOMAIN Req.headers

\* C3: a call() that resolves to public never fails for lack of credentials
\* and sends a request with no signed-key header and no Authorization header,
\* whatever credentials and tokens the client holds.
C3_PublicUnauthenticated ==
    (Resolved /\ Level = "public") =>
        /\ last.out.err \notin AuthenticationErrors
        /\ last.out.err = "" => Sent
        /\ Sent => /\ "Authorization" \notin DOMAIN Req.headers
                   /\ DOMAIN Req.headers \cap AnySignedHeaderNames = {}

\* C3 witness: a public call was sent by a client holding a key credential
\* and a bearer token.
C3_Witness ==
    /\ Resolved /\ Level = "public" /\ Sent
    /\ HoldsKeyCredential /\ BearerAvailable

\* A request is signed when it carries any signed-key header.
Signed == Sent /\ DOMAIN Req.headers \cap AnySignedHeaderNames # {}

\* C4: a signed request carries exactly the three headers {prefix}Key,
\* {prefix}Signature, {prefix}Timestamp; the Timestamp is the clock reading
\* at signing, and the Signature is the HMAC, keyed by the held secret, of
\* "{that timestamp}.{the body string that is sent}".
C4_SignedHeaders ==
    Signed =>
        /\ DOMAIN Req.headers \cap AnySignedHeaderNames = SignedHeaderNames
        /\ DOMAIN Req.headers
               \subseteq SignedHeaderNames \cup PlainHeaderNames \cup {"Authorization"}
        /\ Req.headers[KeyHeader] = HeldApiKey
        /\ Req.headers[TimestampHeader] = ToString(now)
        /\ \E t \in 0..now :
               /\ ToString(t) = Req.headers[TimestampHeader]
               /\ \E a \in Algorithms :
                      Req.headers[SignatureHeader]
                          = hash_hmac(a, ToString(t) \o "." \o SentBody, HeldSecret)

\* C4 witness: a signed request with a body was sent after the clock moved.
C4_Witness == Signed /\ IsSome(Req.body) /\ now > 0

\* C5: the Signature of a signed request is the HMAC under the algorithm
\* the manifest declares in auth.signed_key.algorithm.
C5_DeclaredAlgorithm ==
    Signed =>
        Req.headers[SignatureHeader]
            = hash_hmac(DeclaredAlgorithm, ToString(now) \o "." \o SentBody, HeldSecret)

\* C6: no request that carries signed-key headers or a bearer token is sent
\* to a URL whose scheme is not https.
C6_HttpsOnly ==
    (Sent /\ (Signed \/ "Authorization" \in DOMAIN Req.headers)) =>
        StartsWith(Req.url, "https://")

\* The secret of the second run.
OtherSecret(s) == CHOOSE x \in Secrets : x # s

\* The call just made, made again by a client that held the other secret.
TwinOutcome ==
    IF port = "php"
    THEN PhpCallOutcome([Client EXCEPT !.secret = Some(OtherSecret(HeldSecret)),
                                       !.oauth = last.preOauth],
                        last.name, last.params, last.resp, now)
    ELSE NodeCallOutcome([Client EXCEPT !.credentials =
                              Some([Val(credentials) EXCEPT
                                        !.secret = OtherSecret(HeldSecret)])],
                         last.name, last.params, now)

\* A request with the value of its Signature header blanked.
EraseSignature(r) ==
    [r EXCEPT !.headers = [n \in DOMAIN r.headers |->
                              IF n = SignatureHeader THEN "" ELSE r.headers[n]]]

\* C7: two runs of call() that differ only in the stored secret fail alike or
\* send requests identical in URL, body and every header except the value of
\* {prefix}Signature; the secret occurs in no other part of the request.
C7_SecretNotSent ==
    (last.called /\ HoldsKeyCredential) =>
        /\ TwinOutcome.err = last.out.err
        /\ IsSome(TwinOutcome.request) = Sent
        /\ Sent =>
               /\ EraseSignature(Val(TwinOutcome.request)) = EraseSignature(Req)
               /\ ~Contains(Req.url, HeldSecret)
               /\ ~Contains(SentBody, HeldSecret)
               /\ \A n \in DOMAIN Req.headers \ {SignatureHeader} :
                      ~Contains(Req.headers[n], HeldSecret)

\* C7 witness: a signed request with a body was sent.
C7_Witness == Signed /\ IsSome(Req.body) /\ HoldsKeyCredential

\* ------------------------------------------------------ discovery: claims
PrimaryUrl == "https://" \o dDomain \o "/ia.json"

WellKnownUrl == "https://" \o dDomain \o "/.well-known/ia.json"

Is404(r) == r.kind = "http" /\ r.status = 404

\* A 200 response whose body is a manifest every port accepts.
ValidManifest(r) ==
    /\ r.kind = "http" /\ r.status = 200 /\ r.contentType = "application/json"
    /\ r.json = "object" /\ r.size <= MAX_FILE_SIZE
    /\ r.doc \in {GoodDoc, OtherGoodDoc}

Answered(n) == Len(dResponses) >= n

Done == dPc = "done"

\* A message names a location when it holds its URL, or its host and its path.
Names(message, host, path) ==
    \/ Contains(message, "https://" \o host \o path)
    \/ Contains(message, host) /\ Contains(message, " " \o path)

NamesBoth(message) ==
    Names(message, dDomain, "/ia.json") /\ Names(message, dDomain, "/.well-known/ia.json")

\* C8: discover requests /ia.json first and /.well-known/ia.json only after
\* the first location answered 404; a valid manifest at the first location is
\* returned without a second request; a 404 then a valid 200 returns the
\* well-known manifest; a 500 or a transport error at the first location
\* ends discovery without the fallback; no location is requested twice.
C8_DiscoveryOrder ==
    /\ Len(dRequests) <= 2 /\ Len(dResponses) <= Len(dRequests)
    /\ Len(dRequests) >= 1 => dRequests[1] = PrimaryUrl
    /\ Len(dRequests) = 2 =>
           /\ dRequests[2] = WellKnownUrl
           /\ Answered(1) /\ Is404(dResponses[1])
    /\ (Answered(1) /\ ValidManifest(dResponses[1])) =>
           /\ Done /\ Len(dRequests) = 1
           /\ dResult.status = "ok" /\ dResult.data = dResponses[1].doc
    /\ (Answered(2) /\ Is404(dResponses[1]) /\ ValidManifest(dResponses[2])) =>
           /\ Done
           /\ dResult.status = "ok" /\ dResult.data = dResponses[2].doc
    /\ (Answered(1) /\ (dResponses[1].kind = "transport" \/ dResponses[1].status = 500)) =>
           /\ Done /\ Len(dRequests) = 1
           /\ dResult.status = "error"

\* C8 witness: the first location answered 404 and the well-known manifest
\* was returned.
C8_Witness ==
    /\ Done /\ Answered(2) /\ Is404(dResponses[1]) /\ ValidManifest(dResponses[2])
    /\ dResult.status = "ok"

SecondFails ==
    /\ Done /\ Answered(2) /\ Is404(dResponses[1])
    /\ \/ dResponses[2].kind = "transport"
       \/ ~(dResponses[2].status >= 200 /\ dResponses[2].status <= 299)
       \/ dResponses[2].json # "object"

OwnFailureCodes(r) ==
    IF r.kind = "transport" THEN {"network_error"}
    ELSE IF ~(r.status >= 200 /\ r.status <= 299) THEN {"fetch_failed", "http_error"}
    ELSE {"parse_error", "invalid_json", "invalid_format", "not_an_object",
          "validation_error", "invalid_version"}

Returned == Done /\ dResult.status = "ok"

\* The last response received is a 200 carrying the JSON object of a
\* manifest, read by discover (every earlier response was a 404).
LastObject ==
    /\ Done /\ Answered(1)
    /\ dResponses[Len(dResponses)].kind = "http"
    /\ dResponses[Len(dResponses)].status = 200
    /\ dResponses[Len(dResponses)].contentType = "application/json"
    /\ dResponses[Len(dResponses)].json = "object"

LastDoc == dResponses[Len(dResponses)].doc

\* C11: every manifest discover returns has a version matching
\* MAJOR.MINOR.PATCH whose major number is 1; a manifest with any other
\* version makes discover fail instead of returning it.
C11_SupportedVersion ==
    /\ Returned =>
           /\ IsSome(dResult.data.version)
           /\ IsSemver(Val(dResult.data.version))
           /\ MajorOf(Val(dResult.data.version)) = "1"
    /\ (LastObject /\ IsSome(LastDoc.version)
            /\ ~(IsSemver(Val(LastDoc.version)) /\ MajorOf(Val(LastDoc.version)) = "1")) =>
           dResult.status = "error"

\* Some endpoint group of the api section is present and non-empty.
HasNonEmptyGroup(api) ==
    \E i \in 1..Len(Levels) :
        IsSome(GroupOf(api, Levels[i])) /\ Val(GroupOf(api, Levels[i])) # <<>>

\* C12: every manifest discover returns has at least one of the groups
\* public, protected, user_required present and non-empty; a manifest with
\* no group, or with only empty groups, fails validation.
C12_SomeEndpointGroup ==
    /\ Returned => IsSome(dResult.data.api) /\ HasNonEmptyGroup(Val(dResult.data.api))
    /\ (LastObject /\ IsSome(LastDoc.api) /\ ~HasNonEmptyGroup(Val(LastDoc.api))) =>
           dResult.status = "error"

\* C13: a 2xx response whose body is larger than 1,048,576 bytes ends
\* discover with FileTooLarge, without a request to the next location and
\* without a manifest; a body of exactly 1,048,576 bytes is accepted.
C13_SizeCeiling ==
    /\ \A i \in 1..Len(dResponses) :
           (/\ dResponses[i].kind = "http" /\ dResponses[i].status = 200
            /\ dResponses[i].size > 1048576) =>
               /\ Done /\ Len(dRequests) = i
               /\ dResult.status = "error" /\ dResult.code = "file_too_large"
    /\ (LastObject /\ LastDoc = GoodDoc /\ dResponses[Len(dResponses)].size = 1048576) =>
           Returned /\ dResult.data = GoodDoc

\* The first position at or after i of s that holds "/" or "?"; 0 if none.
RECURSIVE PathStart(_, _)
PathStart(s, i) ==
    IF i > Len(s) THEN 0
    ELSE IF SubSeq(s, i, i) \in {"/", "?"} THEN i
    ELSE PathStart(s, i + 1)

\* The host of a domain argument: scheme prefix, path or query, and
\* trailing dots stripped.
HostOf(domain) ==
    LET a == IF StartsWith(domain, "https://") THEN Drop(domain, 8)
             ELSE IF StartsWith(domain, "http://") THEN Drop(domain, 7)
             ELSE domain
        i == PathStart(a, 1)
        b == IF i = 0 THEN a ELSE SubSeq(a, 1, i - 1)
    IN  rtrim(b, ".")

\* C14: discover(domain) requests only https://{host}/ia.json and
\* https://{host}/.well-known/ia.json, host being the argument without its
\* scheme prefix, path or query and trailing dot; when that host is empty
\* discover fails with InvalidDomain and requests nothing.
C14_NormalizedHost ==
    dPc # "idle" =>
        IF HostOf(dInput) = ""
        THEN /\ Done /\ dRequests = <<>>
             /\ dResult.status = "error" /\ dResult.code = "invalid_domain"
        ELSE \A i \in 1..Len(dRequests) :
                 dRequests[i] \in {"https://" \o HostOf(dInput) \o "/ia.json",
                                   "https://" \o HostOf(dInput) \o "/.well-known/ia.json"}

\* ----------------------------------------------- call(): resolution and URL
\* The levels whose group of the client's manifest holds the called name.
TiersHolding(name) ==
    {i \in 1..Len(Levels) : InGroup(GroupOf(Val(spec.api), Levels[i]), name)}

FirstTier(name) == CHOOSE i \in TiersHolding(name) : \A k \in TiersHolding(name) : i <= k

\* C15: a name held by more than one group resolves to the entry of the
\* first group in the order public, protected, user_required.
C15_FirstTierWins ==
    (last.called /\ TiersHolding(last.name) # {}) =>
        /\ Resolved
        /\ Level = Levels[FirstTier(last.name)]
        /\ Sent =>
               Req.method = ValueOf(Val(GroupOf(Val(spec.api), Levels[FirstTier(last.name)])),
                                    last.name).method

UnknownOperationErrors == {"endpoint_not_found", "unknown_endpoint"}

\* C16: call() with a name that no group of the manifest holds fails with
\* UnknownOperation and hands no request to the transport, whatever
\* credentials are held.
C16_UnknownOperation ==
    (last.called /\ TiersHolding(last.name) = {}) =>
        /\ last.out.err \in UnknownOperationErrors
        /\ ~Sent

\* C16 witness: an unknown name was called by a client holding a key
\* credential.
C16_Witness ==
    /\ last.called /\ TiersHolding(last.name) = {} /\ HoldsKeyCredential
    /\ last.out.err \in UnknownOperationErrors

\* The entry call() resolved the name to, and its path template.
ResolvedEntry == ValueOf(Val(GroupOf(Val(spec.api), Level)), last.name)

Template == ResolvedEntry.path

ParamKeys == {"id", "q"}

\* The placeholders of the template.
TemplateKeys == {k \in ParamKeys : Contains(Template, "{" \o k \o "}")}

\* C17: call() on an operation whose template has a placeholder {p} that
\* params does not supply fails with MissingParameter and sends nothing; no
\* request is sent whose URL still holds a placeholder. (A call that also
\* lacks the credentials of its level may report that failure instead.)
C17_MissingParameter ==
    /\ (Resolved /\ \E k \in TemplateKeys : ~HasKey(last.params, k)) =>
           /\ last.out.err \in {"missing_parameter"} \cup AuthenticationErrors
           /\ ~Sent
    /\ Sent => ~Contains(Req.url, "{") /\ ~Contains(Req.url, "%7B")

\* The URL requested without its query string, and the query string.
UrlNoQuery(u) ==
    LET i == IndexFrom(u, "?", 1) IN IF i = 0 THEN u ELSE SubSeq(u, 1, i - 1)

UrlQuery(u) == LET i == IndexFrom(u, "?", 1) IN IF i = 0 THEN "" ELSE Drop(u, i)

InQuery(k) ==
    \/ StartsWith(UrlQuery(Req.url), k \o "=")
    \/ Contains(UrlQuery(Req.url), "&" \o k \o "=")

InBody(k) == Contains(SentBody, "\"" \o k \o "\":\"" \o ValueOf(last.params, k) \o "\"")

\* The template with {k} replaced by the URL-escaped value of k.
Substituted(path, k) ==
    IF HasKey(last.params, k)
    THEN ReplaceFirst(path, "{" \o k \o "}", rawurlencode(ValueOf(last.params, k)))
    ELSE path

InPath(k) ==
    /\ Contains(UrlNoQuery(Req.url), Substituted(Substituted(Template, "id"), "q"))
    /\ ~Contains(UrlNoQuery(Req.url), "{" \o k \o "}")

\* C18: every supplied parameter is in exactly one place of the request
\* sent: in the path when the template holds {key}, else in the query string
\* for GET and DELETE, else in the JSON body for POST, PUT and PATCH.
C18_ParameterRouting ==
    Sent =>
        \A k \in Keys(last.params) :
            IF k \in TemplateKeys
            THEN InPath(k) /\ ~InQuery(k) /\ ~InBody(k)
            ELSE IF ResolvedEntry.method \in {"GET", "DELETE"}
            THEN InQuery(k) /\ ~InBody(k)
            ELSE InBody(k) /\ ~InQuery(k)

BaseUrl == Val(Val(spec.api).base_url)

\* C19: the URL requested is base_url with the substituted endpoint path
\* appended: scheme and host are those of base_url and the path starts with
\* the path of base_url.
C19_UrlUnderBaseUrl ==
    Sent =>
        /\ UrlOrigin(Req.url) = UrlOrigin(BaseUrl)
        /\ StartsWith(UrlPath(Req.url), UrlPath(BaseUrl))
        /\ Contains(UrlNoQuery(Req.url), BaseUrl)

\* ------------------------------------------------- call(): response mapping
Received == handled.received /\ handled.resp.kind = "http"

RateLimitClasses == {"RateLimitException", "RateLimitError"}

AuthenticationClasses == {"AuthenticationException", "AuthenticationError"}

ProtocolClasses == {"IaJsonException", "IaJsonError"}

\* A Retry-After header that holds a number of seconds.
NumericRetryAfter ==
    /\ IsSome(handled.resp.retryAfter)
    /\ Val(handled.resp.retryAfter) # ""
    /\ \A i \in 1..Len(Val(handled.resp.retryAfter)) :
           SubSeq(Val(handled.resp.retryAfter), i, i) \in Digits

\* C20: call() maps a 429 to a rate-limit failure carrying the Retry-After
\* value when present, a 401 or 403 to an authentication failure carrying
\* the error code of the response body when present, every other status
\* >= 400 to a generic protocol failure, and returns only 2xx responses.
C20_ResponseMapping ==
    Received =>
        /\ handled.resp.status = 429 =>
               /\ handled.out.class \in RateLimitClasses
               /\ NumericRetryAfter =>
                      handled.out.retryAfter
                          = Some(DecimalOf(Val(handled.resp.retryAfter), 0))
        /\ handled.resp.status \in {401, 403} =>
               /\ handled.out.class \in AuthenticationClasses
               /\ IsSome(handled.resp.errorCode) =>
                      handled.out.errorCode = handled.resp.errorCode
        /\ (handled.resp.status >= 400 /\ handled.resp.status \notin {401, 403, 429}) =>
               handled.out.class \in ProtocolClasses
        /\ handled.out.class = "" =>
               handled.resp.status >= 200 /\ handled.resp.status <= 299

\* ------------------------------------------------------------ Signer: claims
Verified == sv.op = "verify"

\* The timestamp verified is within maxAgeSeconds of the clock.
Fresh == Abs(now - sv.timestamp) <= sv.maxAgeSeconds

\* The signature provided is the one sign issues for the verified secret,
\* timestamp, body and algorithm.
ProvidedIsSigned ==
    sv.provided = Signer_sign(sv.secret, sv.timestamp, sv.body, sv.algorithm)

\* C21: for every secret, every body, both algorithms and every valid
\* timestamp (one within maxAge of the clock), verify of the signature that
\* sign issued for the same secret, timestamp, body and algorithm is true.
C21_RoundTrip == (Verified /\ ProvidedIsSigned /\ Fresh) => sv.out.ok

\* C21 witness: a sha512 signature made by sign was verified.
C21_Witness ==
    Verified /\ ProvidedIsSigned /\ Fresh /\ sv.algorithm = "sha512" /\ sv.out.ok

\* C22: verify is false whenever |now - timestamp| > maxAgeSeconds (60 when
\* omitted), for past and future timestamps and whatever the signature, and
\* no HMAC is computed for it; a timestamp exactly maxAgeSeconds away passes
\* the freshness check.
C22_Freshness ==
    Verified =>
        /\ Abs(now - sv.timestamp) > sv.maxAgeSeconds =>
               ~sv.out.ok /\ sv.out.hmacs = 0
        /\ Abs(now - sv.timestamp) = sv.maxAgeSeconds =>
               sv.out.hmacs = 1 /\ (sv.out.ok <=> ProvidedIsSigned)

\* C22 witness: a correctly signed timestamp 61 seconds in the future was
\* refused under the default maxAgeSeconds.
C22_Witness ==
    /\ Verified /\ ProvidedIsSigned /\ sv.maxAgeSeconds = 60
    /\ sv.timestamp - now = 61 /\ ~sv.out.ok

\* C23: the signature is the HMAC, keyed by the secret, of the decimal
\* timestamp, one ".", and the body unchanged (ending with the dot for an
\* empty body); Signer::sign with sha256 and the Node sign agree.
C23_SigningString ==
    sv.op = "sign" =>
        /\ sv.signingString = ToString(sv.timestamp) \o "." \o sv.body
        /\ sv.php = hash_hmac(sv.algorithm, ToString(sv.timestamp) \o "." \o sv.body,
                              sv.secret)
        /\ sv.node = hash_hmac("sha256", ToString(sv.timestamp) \o "." \o sv.body,
                               sv.secret)
        /\ sv.algorithm = "sha256" => sv.php = sv.node

\* C23 witness: both ports signed an empty body with sha256.
C23_Witness ==
    /\ sv.op = "sign" /\ sv.body = "" /\ sv.algorithm = "sha256"
    /\ sv.signingString = ToString(sv.timestamp) \o "."
    /\ sv.php = sv.node


\* ---------------------------------------------------------------- C24
Handled24 == mw.op = "handle"

AllHeadersPresent ==
    /\ mw.prefix = DefaultHeaderPrefix
    /\ IsSome(mw.key) /\ IsSome(mw.signature) /\ IsSome(mw.timestamp)

\* The handler ran only for a request carrying the three headers, a numeric
\* timestamp within max_age_seconds of now, a known key and the HMAC of
\* "{timestamp}.{raw body}" under that key's secret; otherwise the answer is
\* a 401 with an error code. (The part of C24 that the middleware satisfies.)
HandlerOnlyWhenVerified ==
    Handled24 =>
        IF mw.out.next
        THEN /\ AllHeadersPresent
             /\ is_numeric(Val(mw.timestamp))
             /\ IsSome(resolveSecret(Val(mw.key)))
             /\ Abs(now - PhpIntCast(Val(mw.timestamp))) <= DefaultMaxAge
             /\ Val(mw.signature) =
                    hash_hmac(mw.algorithm,
                              ToString(PhpIntCast(Val(mw.timestamp))) \o "." \o mw.body,
                              Val(resolveSecret(Val(mw.key))))
        ELSE mw.out.status = 401 /\ IsSome(mw.out.code)

\* C24: the middleware invokes the downstream handler only for a fully
\* verified request and answers 401 otherwise, and a request whose three
\* headers are present but whose key is unknown is answered invalid_key
\* whatever its timestamp and signature.
C24_UnknownKeyIsInvalidKey ==
    /\ HandlerOnlyWhenVerified
    /\ (Handled24 /\ AllHeadersPresent /\ resolveSecret(Val(mw.key)) = None)
           => mw.out.code = Some("invalid_key")


\* ------------------------------------------------------------ C25 .. C29
Registered == reg.op = "register"

VerifyCalled == reg.op = "verify"

SignedKeySupported == IsSome(SignedKeyConfig(Client))

\* The answer is a 2xx JSON object without a non-empty api_key or secret.
LacksCredentials(ans) ==
    /\ ans.kind = "http" /\ ans.status >= 200 /\ ans.status <= 299
    /\ IsSome(ans.body)
    /\ (empty(Val(ans.body).api_key) \/ empty(Val(ans.body).secret))

\* C25: register with one of name, domain, webhook_url, contact missing or
\* empty fails with invalid_registration and sends no request.
C25_RequiredFieldsCheckedLocally ==
    (Registered /\ SignedKeySupported
        /\ IsSome(FirstEmpty(reg.agentInfo, RequiredFields)))
        => (reg.out.errorCode = Some("invalid_registration") /\ ~reg.out.sent)

\* C26: an operation whose answer should carry the credentials (verify, and
\* register where register is what returns them) fails when the answer lacks
\* a non-empty api_key or secret, and a failed verify leaves the stored api
\* key and secret as they were.
C26_NoCredentialsFromIncompleteResponse ==
    /\ ((VerifyCalled \/ (Registered /\ port = "node"))
           /\ SignedKeySupported /\ reg.out.sent /\ LacksCredentials(reg.ans))
           => (reg.out.class # "" /\ Stored = reg.pre)
    /\ (VerifyCalled /\ reg.out.class # "") => Stored = reg.pre

\* C27: a verify answered with a status >= 400 and a JSON error object fails
\* with that object's error code.
C27_ServerErrorCodeReported ==
    (VerifyCalled /\ reg.out.sent /\ reg.ans.kind = "http" /\ reg.ans.status >= 400
        /\ IsSome(reg.ans.body) /\ IsSome(Val(reg.ans.body).error))
        => reg.out.errorCode = Val(Val(reg.ans.body).error).code

\* The register URL with the last segment of its path replaced by "verify"
\* (a trailing slash is not a segment of its own).
ExpectedVerifyUrl(u) ==
    LET trimmed == rtrim(UrlPath(u), "/")
    IN  UrlOrigin(u) \o UrlDir(IF trimmed = "" THEN "/" ELSE trimmed) \o "verify"

RegisterUrlOf(c) == Val(SignedKeyConfig(c)).register_url

\* C28: with no explicit verify URL, the verification code goes to the
\* register URL with its final path segment replaced by "verify", same
\* scheme, host and port, for every register URL that has a scheme and host.
C28_DerivedVerifyUrl ==
    (VerifyCalled /\ SignedKeySupported /\ reg.verifyUrl = None
        /\ IsSome(parse_url(RegisterUrlOf(Client)).scheme)
        /\ IsSome(parse_url(RegisterUrlOf(Client)).host))
        => (reg.out.sent /\ reg.out.url = ExpectedVerifyUrl(RegisterUrlOf(Client)))

\* C29: the client's credentials are assigned only by a successful verify;
\* register leaves them unchanged.
C29_CredentialsOnlyAfterVerify ==
    /\ (reg.op # "none" /\ reg.out.stores) => (VerifyCalled /\ reg.out.class = "")
    /\ Registered => Stored = reg.pre


\* ---------------------------------------------------------------- C30
Authorized == pk.op = "authorize"

UnreservedChars ==
    {SubSeq(s, i, i) :
        s \in {"ABCDEFGHIJKLMNOPQRSTUVWXYZabcdefghijklmnopqrstuvwxyz0123456789-._~"},
        i \in 1..66}

HasSubstring(s, p) ==
    \E i \in 1..(Len(s) - Len(p) + 1) : SubSeq(s, i, i + Len(p) - 1) = p

\* C30: when the manifest requires PKCE, every authorization URL built
\* carries code_challenge_method=S256 and the code_challenge
\* BASE64URL(SHA256(verifier)) of the verifier returned with it, a verifier of
\* 43 to 128 unreserved characters.
C30_PkceChallengeCarried ==
    (Authorized /\ PkceRequired(Client)) =>
        /\ IsSome(pk.out.code_verifier)
        /\ LET v == Val(pk.out.code_verifier)
           IN  /\ Len(v) >= 43 /\ Len(v) <= 128
               /\ \A i \in 1..Len(v) : SubSeq(v, i, i) \in UnreservedChars
               /\ HasSubstring(pk.out.url,
                               "code_challenge=" \o Base64OfDigest(hash_sha256(v)) \o "&")
        /\ HasSubstring(pk.out.url, "code_challenge_method=S256")


\* ---------------------------------------------------------------- C31
\* The value of parameter key in the query string of url, None when absent.
QueryValue(url, key) ==
    LET starts == {i \in 1..Len(url) :
                      /\ i + Len(key) + 1 <= Len(url)
                      /\ SubSeq(url, i, i) \in {"?", "&"}
                      /\ SubSeq(url, i + 1, i + Len(key) + 1) = key \o "="}
    IN  IF starts = {} THEN None
        ELSE LET from == (CHOOSE i \in starts : \A j \in starts : i <= j) + Len(key) + 2
                 ends == {i \in from..Len(url) : SubSeq(url, i, i) = "&"}
                 to   == IF ends = {} THEN Len(url)
                         ELSE (CHOOSE i \in ends : \A j \in ends : i <= j) - 1
             IN  Some(SubSeq(url, from, to))

IsHexToken(s, bytes) ==
    /\ Len(s) = 2 * bytes
    /\ \A i \in 1..Len(s) : HasSubstring(HexDigits, SubSeq(s, i, i))

\* C31: every authorization URL built carries a non-empty state parameter,
\* the caller's value when one was supplied and a 16-byte hex token
\* otherwise.
C31_StateAlwaysPresent ==
    Authorized =>
        /\ IsSome(QueryValue(pk.out.url, "state"))
        /\ IF pk.state # ""
           THEN Val(QueryValue(pk.out.url, "state")) = pk.state
           ELSE IsHexToken(Val(QueryValue(pk.out.url, "state")), 16)


\* ------------------------------------------------- C32, C33, C34, C36, C37
Cell == Val(oauth)

Step == tk.last

TokenStored == Step.step = "response" /\ Step.err = ""

TokenRequestFailed == Step.step = "response" /\ Step.err # ""

\* C32: a token response with expires_in = e received at time t sets
\* expiresAt to t + e; isExpired() is true exactly when an expiry is recorded
\* and now >= expiresAt - 30.
C32_ExpiryBookkeeping ==
    /\ (TokenStored /\ IsSome(Step.resp.expires_in))
           => Cell.expiresAt = Some(now + Val(Step.resp.expires_in))
    /\ IsSome(oauth)
           => (isExpired(Cell, now)
                   <=> (IsSome(Cell.expiresAt) /\ now >= Val(Cell.expiresAt) - 30))

C32_Witness ==
    /\ TokenStored /\ Step.resp.expires_in = Some(30) /\ now > 0
    /\ Cell.expiresAt = Some(now + 30) /\ isExpired(Cell, now)

GetAccessTokenStep == Step.kind = "getAccessToken"

ShouldRefresh(o) ==
    /\ IsSome(o.accessToken) /\ IsSome(o.refreshToken)
    /\ IsSome(o.expiresAt) /\ now >= Val(o.expiresAt) - 30

GoodTokenResponse(resp) == resp.kind = "ok" /\ resp.access_token # ""

\* C33: getAccessToken sends one refresh request when the held token is
\* expired and a refresh token is held, none otherwise; a successful refresh
\* makes it return the newly issued token, a failed one makes it fail
\* without returning the expired token.
C33_OneRefreshPerExpiredToken ==
    /\ (GetAccessTokenStep /\ Step.step = "start")
           => Step.sent = (IF ShouldRefresh(Step.pre) THEN 1 ELSE 0)
    /\ (GetAccessTokenStep /\ Step.step = "response")
           => /\ Step.sent = 0
              /\ IF GoodTokenResponse(Step.resp)
                 THEN Step.err = "" /\ Step.token = Some(Step.resp.access_token)
                 ELSE Step.err # "" /\ Step.token = None

C33_Witness ==
    /\ GetAccessTokenStep /\ Step.step = "response"
    /\ ~GoodTokenResponse(Step.resp)
    /\ IsSome(Step.pre.accessToken) /\ Step.err # "" /\ Step.token = None

C36_NoExpiredTokenReturned ==
    (GetAccessTokenStep /\ Step.ended /\ Step.err = "" /\ IsSome(Step.token))
        => ~isExpired(Cell, now)

\* C37: a failed token request leaves access token, refresh token and
\* expiresAt as they were, and a successful response without refresh_token
\* keeps the refresh token held before.
C37_FailedRequestKeepsTokens ==
    /\ TokenRequestFailed => Cell = Step.pre
    /\ (Step.step = "start" /\ Step.ended /\ Step.err # "") => Cell = Step.pre
    /\ (TokenStored /\ Step.resp.refresh_token = None)
           => Cell.refreshToken = Step.pre.refreshToken

C37_Witness ==
    /\ TokenStored /\ Step.resp.refresh_token = None
    /\ Step.pre.refreshToken = Some("r0") /\ Cell.refreshToken = Some("r0")
    /\ Cell.accessToken = Some("t1")



\* ---------------------------------------------------------------- C35
Validated == vd.op = "validated"

SchemaPassed == vd.isObject /\ vd.ajvErrors = <<>>

Paths(findings) == {findings[i].path : i \in 1..Len(findings)}

\* protected or user_required endpoints without an auth section, and
\* user_required endpoints without auth.oauth2
MissingAuthPaths(data) ==
    LET api == Val(data.api)
    IN  (IF NonEmptyGroup(api.protected) /\ data.auth = None
         THEN {"/api/protected"} ELSE {})
        \cup (IF NonEmptyGroup(api.user_required) /\ data.auth = None
              THEN {"/api/user_required"} ELSE {})
        \cup (IF NonEmptyGroup(api.user_required) /\ IsSome(data.auth)
                 /\ Val(data.auth).oauth2 = None
              THEN {"/auth"} ELSE {})

\* C35: valid is true exactly when no error is reported; the missing-auth
\* findings are warnings and never errors; a semantic finding of severity
\* error makes a schema-valid document invalid; and nothing semantic is
\* reported when schema validation failed.
C35_ValidIffNoError ==
    Validated =>
        /\ vd.out.valid <=> (vd.out.errors = <<>>)
        /\ SchemaPassed =>
               /\ MissingAuthPaths(vd.data) \subseteq Paths(vd.out.warnings)
               /\ MissingAuthPaths(vd.data) \cap Paths(vd.out.errors) = {}
               /\ vd.out.valid <=>
                      (WithSeverity(runSemanticValidation(vd.data), "error") = <<>>)
        /\ (vd.isObject /\ ~SchemaPassed) =>
               (vd.out.warnings = <<>> /\ vd.out.errors = vd.ajvErrors)

C35_Witness ==
    /\ Validated /\ SchemaPassed /\ vd.out.valid
    /\ "/api/protected" \in Paths(vd.out.warnings)
    /\ vd.out.errors = <<>>


\* ---------------------------------------------------------------- C38
ManifestNames ==
    UNION {Keys(EntriesOf(Val(spec.api), Levels[i])) : i \in 1..Len(Levels)}

AllEndpointsListed == ep.op = "getEndpoints" /\ ep.level = None

\* C38: for every endpoint name of the manifest, the level getEndpoints()
\* with no filter reports for the name is the level resolveEndpoint resolves
\* the name to.
C38_ListedLevelIsResolvedLevel ==
    AllEndpointsListed =>
        \A name \in ManifestNames :
            /\ HasKey(ep.out.result, name)
            /\ IsSome(PhpResolveEndpoint(spec, name))
            /\ ValueOf(ep.out.result, name).level
                   = Val(PhpResolveEndpoint(spec, name)).level


\* ---------------------------------------------------------------- C39
\* The signature Signer::verify expects for the request the middleware saw.
ExpectedSignature ==
    Signer_sign(Val(resolveSecret(Val(mw.key))), PhpIntCast(Val(mw.timestamp)),
                mw.body, mw.algorithm)

\* The freshness check of Signer::verify, at verify's reading of the clock.
FreshnessFailed == Abs(now - PhpIntCast(Val(mw.timestamp))) > DefaultMaxAge

\* C39: the middleware answers invalid_signature only when the provided
\* signature differs from the expected one, and expired_timestamp only when
\* the freshness check of Signer::verify failed, whatever time passes
\* between verify's reading of the clock and the middleware's own.
C39_CodeNamesFailedCheck ==
    mw.op = "handle" =>
        /\ mw.out.code = Some("invalid_signature") =>
               Val(mw.signature) # ExpectedSignature
        /\ mw.out.code = Some("expired_timestamp") => FreshnessFailed

====
